---- MODULE Spec2Model ----
(***************************************************************************)
(* The streaming message parser (StreamingMessageParser) of the chat       *)
(* application: per-message parse state, the scanning loop of parse(),     *)
(* the typed action records built from action tags, the quick-actions      *)
(* markup, and the callbacks it fires.                                      *)
(*                                                                         *)
(* A JavaScript string is modelled as a sequence of one-character strings; *)
(* indices are 0-based as in the source.  `undefined` is the value         *)
(* Undefined, which is no string of characters.                            *)
(***************************************************************************)
EXTENDS Integers, Sequences, FiniteSets, TLC

VARIABLES
  messages,   \* #messages: message id -> MessageState (only ids parsed so far)
  msg,        \* per id: the name of the message the caller is streaming
  sent,       \* per id: length of the text passed to the latest parse call
  growing,    \* per id: every call so far passed a strictly longer prefix than the one before
  calls,      \* per id: number of parse calls made
  out,        \* per id: concatenation of the fragments parse returned
  log,        \* per id: the callbacks fired, in order
  last,       \* per id: what the latest parse call did
  failed,     \* per id: some parse call threw
  trace,      \* the parse and reset calls made, in order, when two ids are streamed
  screens,          \* ScreenStore.#screens: the screens, in key order
  navigationGraph,  \* ScreenStore.#navigationGraph: screen id -> triggers
  activeScreen,     \* ScreenStore.#activeScreen: a screen id or null
  storeOp           \* the latest call on the screen store

parserVars == <<messages, msg, sent, growing, calls, out, log, last, failed, trace>>
storeVars == <<screens, navigationGraph, activeScreen, storeOp>>
vars == <<messages, msg, sent, growing, calls, out, log, last, failed, trace,
          screens, navigationGraph, activeScreen, storeOp>>

(***************************** string constants ****************************)
\* the backquote character, which a TLA+ string cannot hold
Backquote == "backquote"

ARTIFACT_TAG_OPEN == <<"<","b","o","l","t","A","r","t","i","f","a","c","t">>
ARTIFACT_TAG_CLOSE == <<"<","/","b","o","l","t","A","r","t","i","f","a","c","t",">">>
ARTIFACT_ACTION_TAG_OPEN == <<"<","b","o","l","t","A","c","t","i","o","n">>
ARTIFACT_ACTION_TAG_CLOSE == <<"<","/","b","o","l","t","A","c","t","i","o","n",">">>
BOLT_QUICK_ACTIONS_OPEN == <<"<","b","o","l","t","-","q","u","i","c","k","-","a","c","t","i","o","n","s",">">>
BOLT_QUICK_ACTIONS_CLOSE == <<"<","/","b","o","l","t","-","q","u","i","c","k","-","a","c","t","i","o","n","s",">">>
QUICK_ACTION_OPEN == <<"<","b","o","l","t","-","q","u","i","c","k","-","a","c","t","i","o","n">>
QUICK_ACTION_CLOSE == <<"<","/","b","o","l","t","-","q","u","i","c","k","-","a","c","t","i","o","n",">">>
CODE_FENCE == <<Backquote,Backquote,Backquote>>
ESC_LT == <<"&","l","t",";">>
ESC_GT == <<"&","g","t",";">>
MD_SUFFIX == <<".","m","d">>

A_type == <<"t","y","p","e">>
A_title == <<"t","i","t","l","e">>
A_id == <<"i","d">>
A_message == <<"m","e","s","s","a","g","e">>
A_path == <<"p","a","t","h">>
A_href == <<"h","r","e","f">>
A_operation == <<"o","p","e","r","a","t","i","o","n">>
A_filePath == <<"f","i","l","e","P","a","t","h">>
A_screenId == <<"s","c","r","e","e","n","I","d">>
A_screenName == <<"s","c","r","e","e","n","N","a","m","e">>
A_screenType == <<"s","c","r","e","e","n","T","y","p","e">>
A_parentScreen == <<"p","a","r","e","n","t","S","c","r","e","e","n">>
A_navigationTrigger == <<"n","a","v","i","g","a","t","i","o","n","T","r","i","g","g","e","r">>
A_dependencies == <<"d","e","p","e","n","d","e","n","c","i","e","s">>
A_props == <<"p","r","o","p","s">>
A_fromScreen == <<"f","r","o","m","S","c","r","e","e","n">>
A_toScreen == <<"t","o","S","c","r","e","e","n">>
A_trigger == <<"t","r","i","g","g","e","r">>
A_navigationType == <<"n","a","v","i","g","a","t","i","o","n","T","y","p","e">>
A_params == <<"p","a","r","a","m","s">>
A_componentName == <<"c","o","m","p","o","n","e","n","t","N","a","m","e">>
A_componentType == <<"c","o","m","p","o","n","e","n","t","T","y","p","e">>
A_usedByScreens == <<"u","s","e","d","B","y","S","c","r","e","e","n","s">>
A_exports == <<"e","x","p","o","r","t","s">>
A_imports == <<"i","m","p","o","r","t","s">>
A_projectId == <<"p","r","o","j","e","c","t","I","d">>
A_messageId == <<"m","e","s","s","a","g","e","I","d">>

T_supabase == <<"s","u","p","a","b","a","s","e">>
T_file == <<"f","i","l","e">>
T_screen == <<"s","c","r","e","e","n">>
T_navigation == <<"n","a","v","i","g","a","t","i","o","n">>
T_component == <<"c","o","m","p","o","n","e","n","t">>
T_shell == <<"s","h","e","l","l">>
T_start == <<"s","t","a","r","t">>
T_build == <<"b","u","i","l","d">>
T_migration == <<"m","i","g","r","a","t","i","o","n">>
T_query == <<"q","u","e","r","y">>
ARTIFACT_CLASS == <<"c","l","a","s","s","=","\"","_","_","b","o","l","t","A","r","t","i","f","a","c","t","_","_","\"">>
QUICK_ACTION_CLASS == <<"c","l","a","s","s","=","\"","_","_","b","o","l","t","Q","u","i","c","k","A","c","t","i","o","n","_","_","\"">>
QUICK_ACTION_FLAG == <<"d","a","t","a","-","b","o","l","t","-","q","u","i","c","k","-","a","c","t","i","o","n","=","\"","t","r","u","e","\"">>
DATA_PREFIX == <<"d","a","t","a","-">>
DIV_OPEN == <<"<","d","i","v"," ">>
DIV_EMPTY_END == <<">","<","/","d","i","v",">">>
DIV_END == <<"<","/","d","i","v",">">>
BUTTON_OPEN == <<"<","b","u","t","t","o","n"," ">>
BUTTON_END == <<"<","/","b","u","t","t","o","n",">">>
QUICK_ACTION_GROUP_OPEN == <<"<","d","i","v"," ","c","l","a","s","s","=","\"","_","_","b","o","l","t","Q","u","i","c","k","A","c","t","i","o","n","_","_","\""," ","d","a","t","a","-","b","o","l","t","-","q","u","i","c","k","-","a","c","t","i","o","n","=","\"","t","r","u","e","\"",">">>

(****************************** string helpers *****************************)
Undefined == <<"undefined">>

\* !v for a value of type string | undefined
Falsy(v) == v = Undefined \/ v = <<>>

Min(S) == CHOOSE x \in S : \A y \in S : x <= y

\* s[i]: undefined past the end
At(s, i) == IF i >= 0 /\ i < Len(s) THEN s[i + 1] ELSE "undefined"

\* s.slice(a, b) for 0 <= a
Slice(s, a, b) == IF b > Len(s) THEN SubSeq(s, a + 1, Len(s)) ELSE SubSeq(s, a + 1, b)

\* s.slice(a)
SliceFrom(s, a) == SubSeq(s, a + 1, Len(s))

\* s.startsWith(pat, i)
StartsWith(s, pat, i) ==
  /\ i + Len(pat) <= Len(s)
  /\ \A k \in 1..Len(pat) : s[i + k] = pat[k]

\* s.endsWith(pat)
EndsWith(s, pat) == Len(pat) <= Len(s) /\ StartsWith(s, pat, Len(s) - Len(pat))

\* s.indexOf(pat, from): -1 when absent
IndexOf(s, pat, from) ==
  LET found == {p \in from..(Len(s) - Len(pat)) : StartsWith(s, pat, p)}
  IN IF found = {} THEN -1 ELSE Min(found)

UpperLetters == <<"A","B","C","D","E","F","G","H","I","J","K","L","M","N","O","P","Q","R","S","T","U","V","W","X","Y","Z">>
LowerLetters == <<"a","b","c","d","e","f","g","h","i","j","k","l","m","n","o","p","q","r","s","t","u","v","w","x","y","z">>
DigitChars == <<"0","1","2","3","4","5","6","7","8","9">>

Range(s) == {s[k] : k \in 1..Len(s)}

LowerMap == [c \in Range(UpperLetters) |-> LowerLetters[CHOOSE k \in 1..Len(UpperLetters) : UpperLetters[k] = c]]

ToLower(c) == IF c \in DOMAIN LowerMap THEN LowerMap[c] ELSE c

\* the regular-expression classes \s and \w
WhiteSpace == {" ", "\n", "\t", "\r"}
WordChars == Range(UpperLetters) \cup Range(LowerLetters) \cup Range(DigitChars) \cup {"_"}

\* s.trim()
Trim(s) ==
  LET keep == {k \in 1..Len(s) : s[k] \notin WhiteSpace}
  IN IF keep = {} THEN <<>>
     ELSE SubSeq(s, Min(keep), CHOOSE k \in keep : \A j \in keep : j <= k)

\* s.replace(/pat/g, rep)
RECURSIVE ReplaceAll(_, _, _)
ReplaceAll(s, pat, rep) ==
  LET p == IndexOf(s, pat, 0)
  IN IF p = -1 THEN s
     ELSE Slice(s, 0, p) \o rep \o ReplaceAll(SliceFrom(s, p + Len(pat)), pat, rep)

\* String(n)
RECURSIVE String(_)
String(n) ==
  IF n < 0 THEN <<"-">> \o String(0 - n)
  ELSE IF n < 10 THEN <<DigitChars[n + 1]>>
  ELSE String(n \div 10) \o <<DigitChars[(n % 10) + 1]>>

\* JSON.stringify of a string
RECURSIVE JsonEscape(_)
JsonEscape(s) ==
  IF s = <<>> THEN <<>>
  ELSE (CASE Head(s) = "\"" -> <<"\\", "\"">>
          [] Head(s) = "\\" -> <<"\\", "\\">>
          [] Head(s) = "\n" -> <<"\\", "n">>
          [] OTHER -> <<Head(s)>>) \o JsonEscape(Tail(s))

JsonStringify(s) == <<"\"">> \o JsonEscape(s) \o <<"\"">>

\* input.replace(/([a-z])([A-Z])/g, '$1-$2').toLowerCase()
RECURSIVE camelToDashCase(_)
camelToDashCase(input) ==
  IF Len(input) < 2 THEN [k \in 1..Len(input) |-> ToLower(input[k])]
  ELSE IF input[1] \in Range(LowerLetters) /\ input[2] \in Range(UpperLetters)
       THEN <<input[1], "-", ToLower(input[2])>> \o camelToDashCase(SubSeq(input, 3, Len(input)))
       ELSE <<ToLower(input[1])>> \o camelToDashCase(Tail(input))

(************************ content sanitization *****************************)
\* content.match(/^\s*```\w*\n([\s\S]*?)\n\s*```\s*$/): the captured group, or
\* the content itself when the expression does not match
cleanoutMarkdownSyntax(content) ==
  LET n == Len(content)
      nonWs == {k \in 0..(n - 1) : At(content, k) \notin WhiteSpace}
      fenceOpen == Min(nonWs)                                \* after ^\s*
      lastNonWs == CHOOSE k \in nonWs : \A j \in nonWs : j <= k
      fenceClose == lastNonWs - 2                            \* before \s*$
      nonWord == {k \in (fenceOpen + 3)..(n - 1) : At(content, k) \notin WordChars}
      lineEnd == Min(nonWord)                                \* the \n after \w*
      bodyStart == lineEnd + 1
      \* the lazy group ends at the first \n that only white space separates
      \* from the closing fence
      ends == {e \in bodyStart..(fenceClose - 1) :
                 /\ At(content, e) = "\n"
                 /\ \A k \in (e + 1)..(fenceClose - 1) : At(content, k) \in WhiteSpace}
      matches ==
        /\ nonWs # {}
        /\ StartsWith(content, CODE_FENCE, fenceOpen)
        /\ fenceClose >= fenceOpen + 3
        /\ StartsWith(content, CODE_FENCE, fenceClose)
        /\ nonWord # {}
        /\ At(content, lineEnd) = "\n"
        /\ ends # {}
  IN IF matches THEN Slice(content, bodyStart, Min(ends)) ELSE content

\* content.replace(/&lt;/g, '<').replace(/&gt;/g, '>')
cleanEscapedTags(content) ==
  ReplaceAll(ReplaceAll(content, ESC_LT, <<"<">>), ESC_GT, <<">">>)

(************************* attribute extraction ****************************)
\* tag.match(new RegExp(`${attributeName}="([^"]*)"`, 'i')): the leftmost place
\* where the name (in any letter case) is followed by ="...": its value
extractAttribute(tag, attributeName) ==
  LET n == Len(attributeName)
      MatchAt(p) ==
        /\ \A k \in 1..n : tag[p + k] = attributeName[k]
                             \/ ToLower(tag[p + k]) = ToLower(attributeName[k])
        /\ tag[p + n + 1] = "="
        /\ tag[p + n + 2] = "\""
        /\ \E q \in (p + n + 3)..Len(tag) : tag[q] = "\""
      found == {p \in 0..(Len(tag) - n - 3) : MatchAt(p)}
      valueStart == Min(found) + n + 2
      valueEnd == Min({q \in valueStart..(Len(tag) - 1) : At(tag, q) = "\""})
  IN IF found = {} THEN Undefined ELSE Slice(tag, valueStart, valueEnd)

\* value.split(',').map((d) => d.trim())
RECURSIVE SplitTrim(_)
SplitTrim(value) ==
  LET p == IndexOf(value, <<",">>, 0)
  IN IF p = -1 THEN <<Trim(value)>>
     ELSE <<Trim(Slice(value, 0, p))>> \o SplitTrim(SliceFrom(value, p + 1))

\* JSON.parse on an attribute value.  An attribute value holds no double quote,
\* so it holds no JSON string and no object member: the JSON texts it can hold
\* are the literals, the unsigned integers modelled here, and the empty object
\* and array.  Anything else is a SyntaxError, as is every text with a
\* backslash or a letter outside a literal.
JsonParse(text) ==
  LET t == Trim(text)
      inner == Trim(Slice(t, 1, Len(t) - 1))
  IN CASE t = <<"t","r","u","e">> -> [ok |-> TRUE, value |-> [json |-> "true"]]
       [] t = <<"f","a","l","s","e">> -> [ok |-> TRUE, value |-> [json |-> "false"]]
       [] t = <<"n","u","l","l">> -> [ok |-> TRUE, value |-> [json |-> "null"]]
       [] Len(t) >= 2 /\ t[1] = "{" /\ t[Len(t)] = "}" /\ inner = <<>> ->
            [ok |-> TRUE, value |-> [json |-> "object", members |-> <<>>]]
       [] Len(t) >= 2 /\ t[1] = "[" /\ t[Len(t)] = "]" /\ inner = <<>> ->
            [ok |-> TRUE, value |-> [json |-> "array", items |-> <<>>]]
       [] t # <<>> /\ (\A k \in 1..Len(t) : t[k] \in Range(DigitChars))
            /\ (Len(t) = 1 \/ t[1] # "0") ->
            [ok |-> TRUE, value |-> [json |-> "number", digits |-> t]]
       [] OTHER -> [ok |-> FALSE, value |-> Undefined]

(***************************** #parseActionTag *****************************)
\* The record built so far plus one more field
With(rec, field, value) == (field :> value) @@ rec

\* With the field set only when the condition holds (an optional field)
WithIf(cond, rec, field, value) == IF cond THEN With(rec, field, value) ELSE rec

Thrown == [threw |-> TRUE, action |-> [content |-> <<>>]]
Returned(action) == [threw |-> FALSE, action |-> action]

parseSupabase(actionTag, base) ==
  LET operation == extractAttribute(actionTag, A_operation)
      filePath == extractAttribute(actionTag, A_filePath)
  IN IF Falsy(operation) \/ operation \notin {T_migration, T_query} THEN Thrown
     ELSE IF operation = T_migration
          THEN IF Falsy(filePath) THEN Thrown
               ELSE Returned(With(With(base, "operation", operation), "filePath", filePath))
          ELSE Returned(With(base, "operation", operation))

parseFile(actionTag, base) ==
  Returned(With(base, "filePath", extractAttribute(actionTag, A_filePath)))

\* parseScreen that lets the SyntaxError of JSON.parse escape
parseScreen_strictProps(actionTag, base) ==
  LET screenId == extractAttribute(actionTag, A_screenId)
      screenName == extractAttribute(actionTag, A_screenName)
      screenType == extractAttribute(actionTag, A_screenType)
      dependencies == extractAttribute(actionTag, A_dependencies)
      props == extractAttribute(actionTag, A_props)
      required == [type |-> base.type, content |-> base.content,
                   screenId |-> screenId, screenName |-> screenName,
                   screenType |-> screenType,
                   parentScreen |-> extractAttribute(actionTag, A_parentScreen),
                   navigationTrigger |-> extractAttribute(actionTag, A_navigationTrigger)]
      withDeps == WithIf(~Falsy(dependencies), required, "dependencies", SplitTrim(dependencies))
  IN IF Falsy(screenId) \/ Falsy(screenName) \/ Falsy(screenType) THEN Thrown
     ELSE IF Falsy(props) THEN Returned(withDeps)
     ELSE IF JsonParse(props).ok THEN Returned(With(withDeps, "props", JsonParse(props).value))
     ELSE Thrown

parseScreen(actionTag, base) ==
  LET screenId == extractAttribute(actionTag, A_screenId)
      screenName == extractAttribute(actionTag, A_screenName)
      screenType == extractAttribute(actionTag, A_screenType)
      parentScreen == extractAttribute(actionTag, A_parentScreen)
      navigationTrigger == extractAttribute(actionTag, A_navigationTrigger)
      dependencies == extractAttribute(actionTag, A_dependencies)
      props == extractAttribute(actionTag, A_props)
      required == [type |-> base.type, content |-> base.content,
                   screenId |-> screenId, screenName |-> screenName,
                   screenType |-> screenType, parentScreen |-> parentScreen,
                   navigationTrigger |-> navigationTrigger]
      withDeps == WithIf(~Falsy(dependencies), required, "dependencies", SplitTrim(dependencies))
  IN IF Falsy(screenId) \/ Falsy(screenName) \/ Falsy(screenType) THEN Thrown
     ELSE Returned(WithIf(~Falsy(props) /\ JsonParse(props).ok, withDeps,
                          "props", JsonParse(props).value))

parseNavigation(actionTag, base) ==
  LET fromScreen == extractAttribute(actionTag, A_fromScreen)
      toScreen == extractAttribute(actionTag, A_toScreen)
      trigger == extractAttribute(actionTag, A_trigger)
      navigationType == extractAttribute(actionTag, A_navigationType)
      params == extractAttribute(actionTag, A_params)
      required == [type |-> base.type, content |-> base.content,
                   fromScreen |-> fromScreen, toScreen |-> toScreen,
                   trigger |-> trigger, navigationType |-> navigationType]
  IN IF Falsy(fromScreen) \/ Falsy(toScreen) \/ Falsy(trigger) \/ Falsy(navigationType)
     THEN Thrown
     ELSE Returned(WithIf(~Falsy(params) /\ JsonParse(params).ok, required,
                          "params", JsonParse(params).value))

parseComponent(actionTag, base) ==
  LET componentName == extractAttribute(actionTag, A_componentName)
      componentType == extractAttribute(actionTag, A_componentType)
      usedByScreens == extractAttribute(actionTag, A_usedByScreens)
      exports == extractAttribute(actionTag, A_exports)
      imports == extractAttribute(actionTag, A_imports)
      required == [type |-> base.type, content |-> base.content,
                   componentName |-> componentName, componentType |-> componentType]
      withUsed == WithIf(~Falsy(usedByScreens), required, "usedByScreens", SplitTrim(usedByScreens))
      withExports == WithIf(~Falsy(exports), withUsed, "exports", SplitTrim(exports))
  IN IF Falsy(componentName) \/ Falsy(componentType) THEN Thrown
     ELSE Returned(WithIf(~Falsy(imports), withExports, "imports", SplitTrim(imports)))

\* The typed record of the action tag input[actionOpenIndex .. actionEndIndex],
\* or a thrown Error
parseActionTag(input, actionOpenIndex, actionEndIndex) ==
  LET actionTag == Slice(input, actionOpenIndex, actionEndIndex + 1)
      actionType == extractAttribute(actionTag, A_type)
      actionAttributes == [type |-> actionType, content |-> <<>>]
  IN CASE actionType = T_supabase -> parseSupabase(actionTag, actionAttributes)
       [] actionType = T_file -> parseFile(actionTag, actionAttributes)
       [] actionType = T_screen -> parseScreen(actionTag, actionAttributes)
       [] actionType = T_navigation -> parseNavigation(actionTag, actionAttributes)
       [] actionType = T_component -> parseComponent(actionTag, actionAttributes)
       [] OTHER -> Returned(actionAttributes)    \* shell, start, build; else a warning

(****************************** output markup ******************************)
RECURSIVE Join(_, _)
Join(parts, sep) ==
  IF parts = <<>> THEN <<>>
  ELSE IF Len(parts) = 1 THEN parts[1]
  ELSE parts[1] \o sep \o Join(Tail(parts), sep)

\* `data-${camelToDashCase(key)}=${JSON.stringify(value)}`
dataAttribute(key, value) ==
  DATA_PREFIX \o camelToDashCase(key) \o <<"=">> \o JsonStringify(value)

\* the default artifactElement factory, for props = { messageId }
createArtifactElement(messageId) ==
  DIV_OPEN \o Join(<<ARTIFACT_CLASS, dataAttribute(A_messageId, messageId)>>, <<" ">>)
           \o DIV_EMPTY_END

\* a button that leaves out the data attributes whose value is empty
createQuickActionElement_skipEmpty(props, label) ==
  LET kept == SelectSeq(props, LAMBDA p : p[2] # <<>>)
  IN BUTTON_OPEN
       \o Join(<<QUICK_ACTION_CLASS, QUICK_ACTION_FLAG>>
                 \o [k \in 1..Len(kept) |-> dataAttribute(kept[k][1], kept[k][2])], <<" ">>)
       \o <<">">> \o label \o BUTTON_END

createQuickActionElement(props, label) ==
  BUTTON_OPEN
    \o Join(<<QUICK_ACTION_CLASS, QUICK_ACTION_FLAG>>
              \o [k \in 1..Len(props) |-> dataAttribute(props[k][1], props[k][2])], <<" ">>)
    \o <<">">> \o label \o BUTTON_END

createQuickActionGroup(buttons) ==
  QUICK_ACTION_GROUP_OPEN \o Join(buttons, <<>>) \o DIV_END

\* value || ''
OrEmpty(value) == IF Falsy(value) THEN <<>> ELSE value

\* The buttons of the entries that
\* /<bolt-quick-action([^>]*)>([\s\S]*?)<\/bolt-quick-action>/g finds in the
\* block content from index `from` on
RECURSIVE quickActionButtons(_, _)
quickActionButtons(actionsBlockContent, from) ==
  LET open == IndexOf(actionsBlockContent, QUICK_ACTION_OPEN, from)
      attrsStart == open + Len(QUICK_ACTION_OPEN)
      attrsEnd == IndexOf(actionsBlockContent, <<">">>, attrsStart)
      close == IndexOf(actionsBlockContent, QUICK_ACTION_CLOSE, attrsEnd + 1)
      tagAttrs == Slice(actionsBlockContent, attrsStart, attrsEnd)
      label == Slice(actionsBlockContent, attrsEnd + 1, close)
      button ==
        createQuickActionElement(
          << <<A_type, OrEmpty(extractAttribute(tagAttrs, A_type))>>,
             <<A_message, OrEmpty(extractAttribute(tagAttrs, A_message))>>,
             <<A_path, OrEmpty(extractAttribute(tagAttrs, A_path))>>,
             <<A_href, OrEmpty(extractAttribute(tagAttrs, A_href))>> >>,
          label)
  IN IF open = -1 \/ attrsEnd = -1 \/ close = -1 THEN <<>>
     ELSE <<button>> \o quickActionButtons(actionsBlockContent, close + Len(QUICK_ACTION_CLOSE))

(******************************* parse state *******************************)
\* currentArtifact before any container opened and after a container closed
NoArtifact == [undefined |-> TRUE]

\* the MessageState parse() creates for a message id it has not seen
NewMessageState ==
  [position |-> 0, insideAction |-> FALSE, insideArtifact |-> FALSE,
   currentArtifact |-> NoArtifact, currentAction |-> [content |-> <<>>], actionId |-> 0]

\* the argument of onArtifactOpen / onArtifactClose: { messageId, ...currentArtifact }
ArtifactEvent(event, messageId, artifact) ==
  [event |-> event, messageId |-> messageId,
   id |-> artifact.id, title |-> artifact.title, type |-> artifact.type]

\* the argument of onActionOpen / onActionStream / onActionClose
ActionEvent(event, messageId, artifact, actionId, action) ==
  [event |-> event, artifactId |-> artifact.id, messageId |-> messageId,
   actionId |-> String(actionId), action |-> action]

IsFileAction(action) == "type" \in DOMAIN action /\ action.type = T_file

\* how a parse call ends: it returns (the state holds the new position), or it
\* throws (the position is not stored; every other assignment made so far is)
Return(state, i, output, events) ==
  [state |-> [state EXCEPT !.position = i], output |-> output, events |-> events, threw |-> FALSE]
Throw(state, events) ==
  [state |-> state, output |-> <<>>, events |-> events, threw |-> TRUE]

\* The inner loop that matches ARTIFACT_TAG_OPEN character by character from
\* index j with potentialTag matched so far: how the loop is left.  The loop
\* goes on while potentialTag is a proper prefix of ARTIFACT_TAG_OPEN; `taken`
\* is the number of characters it has added when it is left.
matchArtifactOpen(input, j, potentialTag) ==
  LET after(k) == potentialTag \o Slice(input, j, j + k)
      leaving == {k \in 1..(Len(ARTIFACT_TAG_OPEN) - Len(potentialTag)) :
                    /\ j + k <= Len(input)
                    /\ \/ after(k) = ARTIFACT_TAG_OPEN
                       \/ ~StartsWith(ARTIFACT_TAG_OPEN, after(k), 0)}
  IN IF leaving = {}
     THEN [exit |-> "end", j |-> Len(input), potentialTag |-> potentialTag \o SliceFrom(input, j)]
     ELSE LET taken == Min(leaving)
              tag == after(taken)
              at == j + taken - 1
              nextChar == At(input, at + 1)
          IN IF tag = ARTIFACT_TAG_OPEN
             THEN IF nextChar # "undefined" /\ nextChar # ">" /\ nextChar # " "
                  THEN [exit |-> "flush", j |-> at, potentialTag |-> tag]
                  ELSE IF IndexOf(input, <<">">>, at) # -1
                       THEN [exit |-> "open", j |-> at, potentialTag |-> tag]
                       ELSE [exit |-> "earlyBreak", j |-> at, potentialTag |-> tag]
             ELSE [exit |-> "flush", j |-> at, potentialTag |-> tag]

(********************************* parse ***********************************)
\* One iteration of the scanning loop ends the call (Return, Throw) or hands
\* the loop the index to go on at, with the state, the output and the
\* callbacks so far
Continue(state, i, output, events) ==
  [state |-> state, i |-> i, output |-> output, events |-> events]
IsContinue(r) == "i" \in DOMAIN r

\* The quick-actions block at i, its close marker present: the block becomes
\* one group of buttons and the scan goes on after the close marker
quickActionsStep(state, messageId, input, i, output, events) ==
  LET actionsBlockEnd == IndexOf(input, BOLT_QUICK_ACTIONS_CLOSE, i)
      actionsBlockContent == Slice(input, i + Len(BOLT_QUICK_ACTIONS_OPEN), actionsBlockEnd)
      buttons == quickActionButtons(actionsBlockContent, 0)
  IN Continue(state, actionsBlockEnd + Len(BOLT_QUICK_ACTIONS_CLOSE),
          output \o createQuickActionGroup(buttons), events)

\* fileContent that cleans the content whatever the path ends in
fileContent_anyPath(filePath, content) ==
  cleanEscapedTags(cleanoutMarkdownSyntax(content))

\* content for a file action: sanitized unless the path ends in .md
fileContent(filePath, content) ==
  IF EndsWith(filePath, MD_SUFFIX) THEN content
  ELSE cleanEscapedTags(cleanoutMarkdownSyntax(content))

\* insideActionStep that appends the newline to the content of every action
insideActionStep_newlineAlways(state, messageId, input, i, output, events) ==
  LET closeIndex == IndexOf(input, ARTIFACT_ACTION_TAG_CLOSE, i)
      currentAction == state.currentAction
      appended == [currentAction EXCEPT !.content = @ \o Slice(input, i, closeIndex)]
      trimmed == Trim(appended.content)
      final == IF IsFileAction(currentAction)
               THEN fileContent(currentAction.filePath, trimmed) \o <<"\n">>
               ELSE trimmed \o <<"\n">>
      partial == fileContent(currentAction.filePath, SliceFrom(input, i))
      noPath == IsFileAction(currentAction) /\ currentAction.filePath = Undefined
  IN IF closeIndex # -1
     THEN IF noPath
          THEN Throw([state EXCEPT !.currentAction = appended], events)
          ELSE Continue([state EXCEPT !.insideAction = FALSE, !.currentAction = [content |-> <<>>]],
                        closeIndex + Len(ARTIFACT_ACTION_TAG_CLOSE), output,
                    Append(events, ActionEvent("actionClose", messageId, state.currentArtifact,
                                               state.actionId - 1,
                                               [appended EXCEPT !.content = final])))
     ELSE IF ~IsFileAction(currentAction) THEN Return(state, i, output, events)
     ELSE IF noPath THEN Throw(state, events)
     ELSE Return(state, i, output,
                 Append(events, ActionEvent("actionStream", messageId, state.currentArtifact,
                                            state.actionId - 1,
                                            [currentAction EXCEPT !.content = partial])))

\* insideActionStep that keeps the partial content of an unclosed action in the
\* state while the cursor stays at the start of the content
insideActionStep_keepPartial(state, messageId, input, i, output, events) ==
  LET closeIndex == IndexOf(input, ARTIFACT_ACTION_TAG_CLOSE, i)
      currentAction == state.currentAction
      appended == [currentAction EXCEPT !.content = @ \o Slice(input, i, closeIndex)]
      trimmed == Trim(appended.content)
      final == IF IsFileAction(currentAction)
               THEN fileContent(currentAction.filePath, trimmed) \o <<"\n">>
               ELSE trimmed
      partial == fileContent(currentAction.filePath, SliceFrom(input, i))
      noPath == IsFileAction(currentAction) /\ currentAction.filePath = Undefined
  IN IF closeIndex # -1
     THEN IF noPath
          THEN Throw([state EXCEPT !.currentAction = appended], events)
          ELSE Continue([state EXCEPT !.insideAction = FALSE, !.currentAction = [content |-> <<>>]],
                        closeIndex + Len(ARTIFACT_ACTION_TAG_CLOSE), output,
                    Append(events, ActionEvent("actionClose", messageId, state.currentArtifact,
                                               state.actionId - 1,
                                               [appended EXCEPT !.content = final])))
     ELSE IF ~IsFileAction(currentAction)
     THEN Return([state EXCEPT !.currentAction.content = @ \o SliceFrom(input, i)],
                 i, output, events)
     ELSE IF noPath THEN Throw(state, events)
     ELSE Return([state EXCEPT !.currentAction.content = @ \o SliceFrom(input, i)], i, output,
                 Append(events, ActionEvent("actionStream", messageId, state.currentArtifact,
                                            state.actionId - 1,
                                            [currentAction EXCEPT !.content = partial])))

\* Inside an action: close it when its close tag is there, else stream a file
\* action's partial content and stop.  Reading filePath.endsWith of a file
\* action whose filePath is undefined throws a TypeError.
insideActionStep(state, messageId, input, i, output, events) ==
  LET closeIndex == IndexOf(input, ARTIFACT_ACTION_TAG_CLOSE, i)
      currentAction == state.currentAction
      appended == [currentAction EXCEPT !.content = @ \o Slice(input, i, closeIndex)]
      trimmed == Trim(appended.content)
      final == IF IsFileAction(currentAction)
               THEN fileContent(currentAction.filePath, trimmed) \o <<"\n">>
               ELSE trimmed
      partial == fileContent(currentAction.filePath, SliceFrom(input, i))
      noPath == IsFileAction(currentAction) /\ currentAction.filePath = Undefined
  IN IF closeIndex # -1
     THEN IF noPath
          THEN Throw([state EXCEPT !.currentAction = appended], events)
          ELSE Continue([state EXCEPT !.insideAction = FALSE, !.currentAction = [content |-> <<>>]],
                        closeIndex + Len(ARTIFACT_ACTION_TAG_CLOSE), output,
                    Append(events, ActionEvent("actionClose", messageId, state.currentArtifact,
                                               state.actionId - 1,
                                               [appended EXCEPT !.content = final])))
     ELSE IF ~IsFileAction(currentAction) THEN Return(state, i, output, events)
     ELSE IF noPath THEN Throw(state, events)
     ELSE Return(state, i, output,
                 Append(events, ActionEvent("actionStream", messageId, state.currentArtifact,
                                            state.actionId - 1,
                                            [currentAction EXCEPT !.content = partial])))

\* insideArtifactStep that keeps currentArtifact when the container closes
insideArtifactStep_keepArtifact(state, messageId, input, i, output, events) ==
  LET actionOpenIndex == IndexOf(input, ARTIFACT_ACTION_TAG_OPEN, i)
      artifactCloseIndex == IndexOf(input, ARTIFACT_TAG_CLOSE, i)
      actionEndIndex == IndexOf(input, <<">">>, actionOpenIndex)
      parsed == parseActionTag(input, actionOpenIndex, actionEndIndex)
  IN IF actionOpenIndex # -1 /\ (artifactCloseIndex = -1 \/ actionOpenIndex < artifactCloseIndex)
     THEN IF actionEndIndex = -1 THEN Return(state, i, output, events)
          ELSE IF parsed.threw THEN Throw([state EXCEPT !.insideAction = TRUE], events)
          ELSE Continue([state EXCEPT !.insideAction = TRUE, !.currentAction = parsed.action,
                                  !.actionId = @ + 1], actionEndIndex + 1, output,
                    Append(events, ActionEvent("actionOpen", messageId, state.currentArtifact,
                                               state.actionId, parsed.action)))
     ELSE IF artifactCloseIndex # -1
     THEN Continue([state EXCEPT !.insideArtifact = FALSE],
                   artifactCloseIndex + Len(ARTIFACT_TAG_CLOSE), output,
               Append(events, ArtifactEvent("artifactClose", messageId, state.currentArtifact)))
     ELSE Return(state, i, output, events)

\* Inside a container, outside an action: the next action open tag or the
\* container's close tag, whichever comes first
insideArtifactStep(state, messageId, input, i, output, events) ==
  LET actionOpenIndex == IndexOf(input, ARTIFACT_ACTION_TAG_OPEN, i)
      artifactCloseIndex == IndexOf(input, ARTIFACT_TAG_CLOSE, i)
      actionEndIndex == IndexOf(input, <<">">>, actionOpenIndex)
      parsed == parseActionTag(input, actionOpenIndex, actionEndIndex)
  IN IF actionOpenIndex # -1 /\ (artifactCloseIndex = -1 \/ actionOpenIndex < artifactCloseIndex)
     THEN IF actionEndIndex = -1 THEN Return(state, i, output, events)
          ELSE IF parsed.threw THEN Throw([state EXCEPT !.insideAction = TRUE], events)
          ELSE Continue([state EXCEPT !.insideAction = TRUE, !.currentAction = parsed.action,
                                  !.actionId = @ + 1], actionEndIndex + 1, output,
                    Append(events, ActionEvent("actionOpen", messageId, state.currentArtifact,
                                               state.actionId, parsed.action)))
     ELSE IF artifactCloseIndex # -1
     THEN Continue([state EXCEPT !.insideArtifact = FALSE, !.currentArtifact = NoArtifact],
                   artifactCloseIndex + Len(ARTIFACT_TAG_CLOSE), output,
               Append(events, ArtifactEvent("artifactClose", messageId, state.currentArtifact)))
     ELSE Return(state, i, output, events)

\* openTagStep that opens the container and goes on at the index of its <
openTagStep_stay(state, messageId, input, i, output, events) ==
  LET m == matchArtifactOpen(input, i, <<>>)
      openTagEnd == IndexOf(input, <<">">>, m.j)
      artifactTag == Slice(input, i, openTagEnd + 1)
      currentArtifact == [id |-> extractAttribute(artifactTag, A_id),
                          title |-> extractAttribute(artifactTag, A_title),
                          type |-> extractAttribute(artifactTag, A_type)]
  IN CASE m.exit = "flush" ->
            Continue(state, m.j + 1, output \o Slice(input, i, m.j + 1), events)
       [] m.exit = "open" ->
            Continue([state EXCEPT !.insideArtifact = TRUE, !.currentArtifact = currentArtifact],
                     i, output \o createArtifactElement(messageId),
                     Append(events, ArtifactEvent("artifactOpen", messageId, currentArtifact)))
       [] OTHER -> Return(state, i, output, events)

\* Outside a container at a '<' not followed by '/': match the container open
\* tag; a failed match is flushed to the output, a complete open tag opens the
\* container, an unfinished one stops the call
openTagStep(state, messageId, input, i, output, events) ==
  LET m == matchArtifactOpen(input, i, <<>>)
      openTagEnd == IndexOf(input, <<">">>, m.j)
      artifactTag == Slice(input, i, openTagEnd + 1)
      currentArtifact == [id |-> extractAttribute(artifactTag, A_id),
                          title |-> extractAttribute(artifactTag, A_title),
                          type |-> extractAttribute(artifactTag, A_type)]
  IN CASE m.exit = "flush" ->
            Continue(state, m.j + 1, output \o Slice(input, i, m.j + 1), events)
       [] m.exit = "open" ->
            Continue([state EXCEPT !.insideArtifact = TRUE, !.currentArtifact = currentArtifact],
                     openTagEnd + 1, output \o createArtifactElement(messageId),
                     Append(events, ArtifactEvent("artifactOpen", messageId, currentArtifact)))
       [] m.exit = "earlyBreak" -> Return(state, i, output, events)
       [] m.exit = "end" ->
            IF m.j = Len(input) /\ StartsWith(ARTIFACT_TAG_OPEN, m.potentialTag, 0)
            THEN Return(state, i, output, events)
            ELSE Continue(state, i, output, events)

\* Where the loop, copying characters to the output from index i on, next meets
\* a "<" that is not followed by "/", or the end of the input
nextTagStart(input, i) ==
  Min({k \in (i + 1)..Len(input) :
         k = Len(input) \/ (At(input, k) = "<" /\ At(input, k + 1) # "/")})

\* One iteration of the scanning loop of parse() at index i < input.length.
\* Outside a container a character that starts no tag is copied to the
\* output, and so is each one after it up to the next tag start.
iteration(state, messageId, input, i, output, events) ==
  IF StartsWith(input, BOLT_QUICK_ACTIONS_OPEN, i)
     /\ IndexOf(input, BOLT_QUICK_ACTIONS_CLOSE, i) # -1
  THEN quickActionsStep(state, messageId, input, i, output, events)
  ELSE IF state.insideArtifact
  THEN IF state.currentArtifact = NoArtifact THEN Throw(state, events)   \* unreachable(...)
       ELSE IF state.insideAction
       THEN insideActionStep(state, messageId, input, i, output, events)
       ELSE insideArtifactStep(state, messageId, input, i, output, events)
  ELSE IF At(input, i) = "<" /\ At(input, i + 1) # "/"
  THEN openTagStep(state, messageId, input, i, output, events)
  ELSE Continue(state, nextTagStart(input, i),
                output \o Slice(input, i, nextTagStart(input, i)), events)

\* The scanning loop of parse() from index i, with the output and the callbacks
\* of this call so far: iterations while i < input.length
RECURSIVE scan(_, _, _, _, _, _)
scan(state, messageId, input, i, output, events) ==
  IF ~(i < Len(input)) THEN Return(state, i, output, events)
  ELSE CHOOSE result \in
         {IF IsContinue(r) THEN scan(r.state, messageId, input, r.i, r.output, r.events) ELSE r :
            r \in {iteration(state, messageId, input, i, output, events)}} : TRUE

\* parse that scans every text from its first character
parse_fromStart(table, messageId, input) ==
  LET state == IF messageId \in DOMAIN table THEN table[messageId] ELSE NewMessageState
  IN scan(state, messageId, input, 0, <<>>, <<>>)

\* parse that keeps one state for all message ids
parse_oneState(table, messageId, input) ==
  LET state == IF DOMAIN table = {} THEN NewMessageState
               ELSE table[CHOOSE k \in DOMAIN table : TRUE]
  IN scan(state, messageId, input, state.position, <<>>, <<>>)

\* parse(messageId, input) on the table `table`: the state it leaves for the
\* id, the fragment it returns and the callbacks it fires
parse(table, messageId, input) ==
  LET state == IF messageId \in DOMAIN table THEN table[messageId] ELSE NewMessageState
  IN scan(state, messageId, input, state.position, <<>>, <<>>)

(************************** the streamed messages **************************)
\* A message text is a sequence of parts, written out by the tag grammar the
\* parser reads: prose, a container of actions, a quick-actions block.
RECURSIVE Concat(_)
Concat(seqs) == IF seqs = <<>> THEN <<>> ELSE Head(seqs) \o Concat(Tail(seqs))

\* name="value", one leading space each
AttrText(attrs) ==
  Concat([k \in 1..Len(attrs) |-> <<" ">> \o attrs[k][1] \o <<"=", "\"">> \o attrs[k][2] \o <<"\"">>])

ActionText(action) ==
  ARTIFACT_ACTION_TAG_OPEN \o AttrText(action.attrs) \o <<">">> \o action.content
    \o ARTIFACT_ACTION_TAG_CLOSE

QuickActionText(entry) ==
  QUICK_ACTION_OPEN \o AttrText(entry.attrs) \o <<">">> \o entry.label \o QUICK_ACTION_CLOSE

PartText(part) ==
  CASE part.kind = "prose" -> part.text
    [] part.kind = "artifact" ->
         ARTIFACT_TAG_OPEN \o AttrText(part.attrs) \o <<">">>
           \o Concat([k \in 1..Len(part.actions) |-> ActionText(part.actions[k])])
           \o ARTIFACT_TAG_CLOSE
    [] part.kind = "quickActions" ->
         BOLT_QUICK_ACTIONS_OPEN
           \o Concat([k \in 1..Len(part.entries) |-> QuickActionText(part.entries[k])])
           \o BOLT_QUICK_ACTIONS_CLOSE

MessageText(parts) == Concat([k \in 1..Len(parts) |-> PartText(parts[k])])

Prose(text) == [kind |-> "prose", text |-> text]
Artifact(attrs, actions) == [kind |-> "artifact", attrs |-> attrs, actions |-> actions]
QuickActions(entries) == [kind |-> "quickActions", entries |-> entries]
Action(attrs, content) == [attrs |-> attrs, content |-> content]
Entry(attrs, label) == [attrs |-> attrs, label |-> label]

(******************************* the catalog *******************************)
\* prose with characters that look like the start of a tag
MsgProse ==
  <<Prose(<<"a","<","b","<","/","c","<","b","o">>)>>
\* one shell action
MsgShell ==
  <<Artifact(<<<<A_id, <<"a","1">>>>, <<A_title, <<"T">>>>, <<A_type, <<"b","u","n","d","l","e","d">>>>>>,
      <<Action(<<<<A_type, <<"s","h","e","l","l">>>>>>, <<"e","c","h","o"," ","h","i">>)>>)>>
\* one file action with escaped angle brackets
MsgFile ==
  <<Artifact(<<<<A_id, <<"a">>>>, <<A_title, <<"t">>>>>>,
      <<Action(<<<<A_type, <<"f","i","l","e">>>>, <<A_filePath, <<"a",".","t","s">>>>>>, <<"x","&","l","t",";">>)>>)>>
\* a file action without filePath
MsgFileNoPath ==
  <<Artifact(<<<<A_id, <<"a">>>>, <<A_title, <<"t">>>>>>,
      <<Action(<<<<A_type, <<"f","i","l","e">>>>>>, <<"d","a","t","a">>)>>)>>
\* prose around a container of two actions
MsgTwoActions ==
  <<Prose(<<"p">>),
    Artifact(<<<<A_id, <<"a">>>>, <<A_title, <<"t">>>>>>,
      <<Action(<<<<A_type, <<"s","h","e","l","l">>>>>>, <<"a">>),
        Action(<<<<A_type, <<"s","t","a","r","t">>>>>>, <<"b">>)>>),
    Prose(<<"q">>)>>
\* two containers
MsgTwoArtifacts ==
  <<Artifact(<<<<A_id, <<"a">>>>, <<A_title, <<"t">>>>>>,
      <<Action(<<<<A_type, <<"s","h","e","l","l">>>>>>, <<"a">>)>>),
    Artifact(<<<<A_id, <<"b">>>>, <<A_title, <<"u">>>>>>,
      <<Action(<<<<A_type, <<"b","u","i","l","d">>>>>>, <<"b">>)>>)>>
\* one quick action
MsgQuick ==
  <<QuickActions(<<Entry(<<<<A_type, <<"m","e","s","s","a","g","e">>>>, <<A_message, <<"H","i">>>>>>, <<"S","a","y"," ","h","i">>)>>)>>
\* prose around two quick actions
MsgQuickTwo ==
  <<Prose(<<"p">>),
    QuickActions(<<Entry(<<<<A_type, <<"l","i","n","k">>>>, <<A_href, <<"/","x">>>>>>, <<"G","o">>),
      Entry(<<<<A_type, <<"f","i","l","e">>>>, <<A_path, <<"/","a">>>>>>, <<"O","p","e","n">>)>>),
    Prose(<<"q">>)>>
\* a screen action
MsgScreen ==
  <<Artifact(<<<<A_id, <<"a">>>>, <<A_title, <<"t">>>>>>,
      <<Action(<<<<A_type, <<"s","c","r","e","e","n">>>>, <<A_screenId, <<"s">>>>, <<A_screenName, <<"S">>>>, <<A_screenType, <<"p","a","g","e">>>>>>, <<"x">>)>>)>>
\* a navigation action
MsgNavigation ==
  <<Artifact(<<<<A_id, <<"a">>>>, <<A_title, <<"t">>>>>>,
      <<Action(<<<<A_type, <<"n","a","v","i","g","a","t","i","o","n">>>>, <<A_fromScreen, <<"a">>>>, <<A_toScreen, <<"b">>>>, <<A_trigger, <<"c">>>>, <<A_navigationType, <<"p","u","s","h">>>>>>, <<"x">>)>>)>>
\* a component action
MsgComponent ==
  <<Artifact(<<<<A_id, <<"a">>>>, <<A_title, <<"t">>>>>>,
      <<Action(<<<<A_type, <<"c","o","m","p","o","n","e","n","t">>>>, <<A_componentName, <<"C">>>>, <<A_componentType, <<"l","a","y","o","u","t">>>>>>, <<"x">>)>>)>>
\* a supabase query
MsgQuery ==
  <<Artifact(<<<<A_id, <<"a">>>>, <<A_title, <<"t">>>>>>,
      <<Action(<<<<A_type, <<"s","u","p","a","b","a","s","e">>>>, <<A_operation, <<"q","u","e","r","y">>>>>>, <<"x">>)>>)>>
\* a supabase migration
MsgMigration ==
  <<Artifact(<<<<A_id, <<"a">>>>, <<A_title, <<"t">>>>>>,
      <<Action(<<<<A_type, <<"s","u","p","a","b","a","s","e">>>>, <<A_operation, <<"m","i","g","r","a","t","i","o","n">>>>, <<A_filePath, <<"m",".","s","q","l">>>>>>, <<"x">>)>>)>>
\* a navigation action without fromScreen
MsgNavNoFromScreen ==
  <<Artifact(<<<<A_id, <<"a">>>>, <<A_title, <<"t">>>>>>,
      <<Action(<<<<A_type, <<"n","a","v","i","g","a","t","i","o","n">>>>, <<A_toScreen, <<"b">>>>, <<A_trigger, <<"c">>>>, <<A_navigationType, <<"p","u","s","h">>>>>>, <<"x">>)>>)>>
\* a navigation action without toScreen
MsgNavNoToScreen ==
  <<Artifact(<<<<A_id, <<"a">>>>, <<A_title, <<"t">>>>>>,
      <<Action(<<<<A_type, <<"n","a","v","i","g","a","t","i","o","n">>>>, <<A_fromScreen, <<"a">>>>, <<A_trigger, <<"c">>>>, <<A_navigationType, <<"p","u","s","h">>>>>>, <<"x">>)>>)>>
\* a navigation action without trigger
MsgNavNoTrigger ==
  <<Artifact(<<<<A_id, <<"a">>>>, <<A_title, <<"t">>>>>>,
      <<Action(<<<<A_type, <<"n","a","v","i","g","a","t","i","o","n">>>>, <<A_fromScreen, <<"a">>>>, <<A_toScreen, <<"b">>>>, <<A_navigationType, <<"p","u","s","h">>>>>>, <<"x">>)>>)>>
\* a navigation action without navigationType
MsgNavNoNavigationType ==
  <<Artifact(<<<<A_id, <<"a">>>>, <<A_title, <<"t">>>>>>,
      <<Action(<<<<A_type, <<"n","a","v","i","g","a","t","i","o","n">>>>, <<A_fromScreen, <<"a">>>>, <<A_toScreen, <<"b">>>>, <<A_trigger, <<"c">>>>>>, <<"x">>)>>)>>
\* a screen action without screenId
MsgScreenNoId ==
  <<Artifact(<<<<A_id, <<"a">>>>, <<A_title, <<"t">>>>>>,
      <<Action(<<<<A_type, <<"s","c","r","e","e","n">>>>, <<A_screenName, <<"S">>>>, <<A_screenType, <<"p","a","g","e">>>>>>, <<"x">>)>>)>>
\* a screen action without screenName
MsgScreenNoName ==
  <<Artifact(<<<<A_id, <<"a">>>>, <<A_title, <<"t">>>>>>,
      <<Action(<<<<A_type, <<"s","c","r","e","e","n">>>>, <<A_screenId, <<"s">>>>, <<A_screenType, <<"p","a","g","e">>>>>>, <<"x">>)>>)>>
\* a screen action without screenType
MsgScreenNoType ==
  <<Artifact(<<<<A_id, <<"a">>>>, <<A_title, <<"t">>>>>>,
      <<Action(<<<<A_type, <<"s","c","r","e","e","n">>>>, <<A_screenId, <<"s">>>>, <<A_screenName, <<"S">>>>>>, <<"x">>)>>)>>
\* a component action without componentName
MsgComponentNoName ==
  <<Artifact(<<<<A_id, <<"a">>>>, <<A_title, <<"t">>>>>>,
      <<Action(<<<<A_type, <<"c","o","m","p","o","n","e","n","t">>>>, <<A_componentType, <<"l","a","y","o","u","t">>>>>>, <<"x">>)>>)>>
\* a component action without componentType
MsgComponentNoType ==
  <<Artifact(<<<<A_id, <<"a">>>>, <<A_title, <<"t">>>>>>,
      <<Action(<<<<A_type, <<"c","o","m","p","o","n","e","n","t">>>>, <<A_componentName, <<"C">>>>>>, <<"x">>)>>)>>
\* a supabase action without operation
MsgSupabaseNoOperation ==
  <<Artifact(<<<<A_id, <<"a">>>>, <<A_title, <<"t">>>>>>,
      <<Action(<<<<A_type, <<"s","u","p","a","b","a","s","e">>>>>>, <<"x">>)>>)>>
\* a supabase action with an operation that is neither migration nor query
MsgSupabaseBadOperation ==
  <<Artifact(<<<<A_id, <<"a">>>>, <<A_title, <<"t">>>>>>,
      <<Action(<<<<A_type, <<"s","u","p","a","b","a","s","e">>>>, <<A_operation, <<"d","r","o","p">>>>>>, <<"x">>)>>)>>
\* a supabase migration without filePath
MsgMigrationNoPath ==
  <<Artifact(<<<<A_id, <<"a">>>>, <<A_title, <<"t">>>>>>,
      <<Action(<<<<A_type, <<"s","u","p","a","b","a","s","e">>>>, <<A_operation, <<"m","i","g","r","a","t","i","o","n">>>>>>, <<"x">>)>>)>>
\* a shell action, then a component action without componentType
MsgShellThenBad ==
  <<Artifact(<<<<A_id, <<"a">>>>, <<A_title, <<"t">>>>>>,
      <<Action(<<<<A_type, <<"s","h","e","l","l">>>>>>, <<"a">>),
        Action(<<<<A_type, <<"c","o","m","p","o","n","e","n","t">>>>, <<A_componentName, <<"C">>>>>>, <<"x">>)>>)>>
\* a screen action without screenId whose type attribute comes after screenType
MsgTypeLast ==
  <<Artifact(<<<<A_id, <<"a">>>>, <<A_title, <<"t">>>>>>,
      <<Action(<<<<A_screenType, <<"p","a","g","e">>>>, <<A_type, <<"s","c","r","e","e","n">>>>, <<A_screenName, <<"S">>>>>>, <<"x">>)>>)>>
\* a screen action whose props attribute is written with escaped double quotes
MsgScreenProps ==
  <<Artifact(<<<<A_id, <<"a">>>>, <<A_title, <<"t">>>>>>,
      <<Action(<<<<A_type, <<"s","c","r","e","e","n">>>>, <<A_screenId, <<"s">>>>, <<A_screenName, <<"S">>>>, <<A_screenType, <<"p","a","g","e">>>>, <<A_props, <<"{","\\","\"","a","\\","\"",":","1","}">>>>>>, <<"x">>)>>)>>
\* a container without id
MsgArtifactNoId ==
  <<Artifact(<<<<A_title, <<"t">>>>>>,
      <<Action(<<<<A_type, <<"s","h","e","l","l">>>>>>, <<"a">>)>>)>>
\* a container without title
MsgArtifactNoTitle ==
  <<Artifact(<<<<A_id, <<"a">>>>>>,
      <<Action(<<<<A_type, <<"s","h","e","l","l">>>>>>, <<"a">>)>>)>>
\* an action of a type the parser does not know
MsgUnknownType ==
  <<Artifact(<<<<A_id, <<"a">>>>, <<A_title, <<"t">>>>>>,
      <<Action(<<<<A_type, <<"d","e","p","l","o","y">>>>>>, <<"x">>)>>)>>
\* an action without type
MsgNoType ==
  <<Artifact(<<<<A_id, <<"a">>>>, <<A_title, <<"t">>>>>>,
      <<Action(<<>>, <<"x">>)>>)>>
\* a screen action whose props are not JSON
MsgScreenBadProps ==
  <<Artifact(<<<<A_id, <<"a">>>>, <<A_title, <<"t">>>>>>,
      <<Action(<<<<A_type, <<"s","c","r","e","e","n">>>>, <<A_screenId, <<"s">>>>, <<A_screenName, <<"S">>>>, <<A_screenType, <<"p","a","g","e">>>>, <<A_props, <<"{","b","a","d">>>>>>, <<"x">>)>>)>>
\* a navigation action whose params are not JSON
MsgNavBadParams ==
  <<Artifact(<<<<A_id, <<"a">>>>, <<A_title, <<"t">>>>>>,
      <<Action(<<<<A_type, <<"n","a","v","i","g","a","t","i","o","n">>>>, <<A_fromScreen, <<"a">>>>, <<A_toScreen, <<"b">>>>, <<A_trigger, <<"c">>>>, <<A_navigationType, <<"p","u","s","h">>>>, <<A_params, <<"o","o","p","s">>>>>>, <<"x">>)>>)>>
\* a .ts file action whose content is one fenced block
MsgFileFencedTs ==
  <<Artifact(<<<<A_id, <<"a">>>>, <<A_title, <<"t">>>>>>,
      <<Action(<<<<A_type, <<"f","i","l","e">>>>, <<A_filePath, <<"a",".","t","s">>>>>>, <<"\n",Backquote,Backquote,Backquote,"\n","c","o","n","s","t"," ","x","=","1",";","\n",Backquote,Backquote,Backquote,"\n">>)>>)>>
\* a .md file action whose content is one fenced block
MsgFileFencedMd ==
  <<Artifact(<<<<A_id, <<"a">>>>, <<A_title, <<"t">>>>>>,
      <<Action(<<<<A_type, <<"f","i","l","e">>>>, <<A_filePath, <<"a",".","m","d">>>>>>, <<"\n",Backquote,Backquote,Backquote,"\n","c","o","n","s","t"," ","x","=","1",";","\n",Backquote,Backquote,Backquote,"\n">>)>>)>>
\* a screen action whose screenType is not one of the four kinds
MsgScreenPopup ==
  <<Artifact(<<<<A_id, <<"a">>>>, <<A_title, <<"t">>>>>>,
      <<Action(<<<<A_type, <<"s","c","r","e","e","n">>>>, <<A_screenId, <<"s">>>>, <<A_screenName, <<"S">>>>, <<A_screenType, <<"p","o","p","u","p">>>>>>, <<"x">>)>>)>>
\* a supabase query with projectId and filePath
MsgQueryProject ==
  <<Artifact(<<<<A_id, <<"a">>>>, <<A_title, <<"t">>>>>>,
      <<Action(<<<<A_type, <<"s","u","p","a","b","a","s","e">>>>, <<A_operation, <<"q","u","e","r","y">>>>, <<A_projectId, <<"p">>>>, <<A_filePath, <<"q",".","s","q","l">>>>>>, <<"x">>)>>)>>
\* a supabase migration with projectId
MsgMigrationProject ==
  <<Artifact(<<<<A_id, <<"a">>>>, <<A_title, <<"t">>>>>>,
      <<Action(<<<<A_type, <<"s","u","p","a","b","a","s","e">>>>, <<A_operation, <<"m","i","g","r","a","t","i","o","n">>>>, <<A_filePath, <<"m",".","s","q","l">>>>, <<A_projectId, <<"p">>>>>>, <<"x">>)>>)>>
\* a container right after a lone <
MsgDoubleOpen ==
  <<Prose(<<"<">>),
    Artifact(<<<<A_id, <<"a">>>>, <<A_title, <<"t">>>>>>,
      <<Action(<<<<A_type, <<"s","h","e","l","l">>>>>>, <<"a">>)>>)>>
\* a container right after the first characters of a container tag
MsgPartialOpen ==
  <<Prose(<<"<","b","o">>),
    Artifact(<<<<A_id, <<"a">>>>, <<A_title, <<"t">>>>>>,
      <<Action(<<<<A_type, <<"s","h","e","l","l">>>>>>, <<"a">>)>>)>>
\* the screen action of MsgScreen with screenType written before type
MsgScreenTypeFirst ==
  <<Artifact(<<<<A_id, <<"a">>>>, <<A_title, <<"t">>>>>>,
      <<Action(<<<<A_screenType, <<"p","a","g","e">>>>, <<A_type, <<"s","c","r","e","e","n">>>>, <<A_screenId, <<"s">>>>, <<A_screenName, <<"S">>>>>>, <<"x">>)>>)>>

\* the messages a caller may stream, by name
Messages ==
  [Prose |-> MsgProse,
   Shell |-> MsgShell,
   File |-> MsgFile,
   FileNoPath |-> MsgFileNoPath,
   TwoActions |-> MsgTwoActions,
   TwoArtifacts |-> MsgTwoArtifacts,
   Quick |-> MsgQuick,
   QuickTwo |-> MsgQuickTwo,
   Screen |-> MsgScreen,
   Navigation |-> MsgNavigation,
   Component |-> MsgComponent,
   Query |-> MsgQuery,
   Migration |-> MsgMigration,
   NavNoFromScreen |-> MsgNavNoFromScreen,
   NavNoToScreen |-> MsgNavNoToScreen,
   NavNoTrigger |-> MsgNavNoTrigger,
   NavNoNavigationType |-> MsgNavNoNavigationType,
   ScreenNoId |-> MsgScreenNoId,
   ScreenNoName |-> MsgScreenNoName,
   ScreenNoType |-> MsgScreenNoType,
   ComponentNoName |-> MsgComponentNoName,
   ComponentNoType |-> MsgComponentNoType,
   SupabaseNoOperation |-> MsgSupabaseNoOperation,
   SupabaseBadOperation |-> MsgSupabaseBadOperation,
   MigrationNoPath |-> MsgMigrationNoPath,
   ShellThenBad |-> MsgShellThenBad,
   TypeLast |-> MsgTypeLast,
   ScreenProps |-> MsgScreenProps,
   ArtifactNoId |-> MsgArtifactNoId,
   ArtifactNoTitle |-> MsgArtifactNoTitle,
   UnknownType |-> MsgUnknownType,
   NoType |-> MsgNoType,
   ScreenBadProps |-> MsgScreenBadProps,
   NavBadParams |-> MsgNavBadParams,
   FileFencedTs |-> MsgFileFencedTs,
   FileFencedMd |-> MsgFileFencedMd,
   ScreenPopup |-> MsgScreenPopup,
   QueryProject |-> MsgQueryProject,
   MigrationProject |-> MsgMigrationProject,
   DoubleOpen |-> MsgDoubleOpen,
   PartialOpen |-> MsgPartialOpen,
   ScreenTypeFirst |-> MsgScreenTypeFirst]

\* the characters of each message
Texts == [name \in DOMAIN Messages |-> MessageText(Messages[name])]

(****************************** state machine ******************************)
M1 == <<"m", "1">>
M2 == <<"m", "2">>
MsgIds == {M1, M2}

\* msg[id] of a message id the caller never parses
NotStreamed == "none"

TextOf(id) == IF msg[id] = NotStreamed THEN <<>> ELSE Texts[msg[id]]

\* parse calls per message id
MaxCalls == 3
\* characters a later call may add to the text of the call before it, short of
\* passing the complete text
MaxStep == 1

NoCall == [called |-> FALSE]

\* null
Null == <<"null">>

\* new ScreenStore(): no screen, no trigger, no active screen
NewStore ==
  /\ screens = <<>>
  /\ navigationGraph = [id \in {} |-> <<>>]
  /\ activeScreen = Null
  /\ storeOp = [op |-> "new"]

Init ==
  /\ NewStore
  /\ messages = [id \in {} |-> NewMessageState]
  /\ \E name \in DOMAIN Messages : msg = [id \in MsgIds |-> IF id = M1 THEN name ELSE NotStreamed]
  /\ sent = [id \in MsgIds |-> -1]
  /\ growing = [id \in MsgIds |-> TRUE]
  /\ calls = [id \in MsgIds |-> 0]
  /\ out = [id \in MsgIds |-> <<>>]
  /\ log = [id \in MsgIds |-> <<>>]
  /\ last = [id \in MsgIds |-> NoCall]
  /\ failed = [id \in MsgIds |-> FALSE]
  /\ trace = <<>>

\* The lengths of the prefixes the caller may pass next: any prefix on the
\* first call; later the same text again, one character less, up to MaxStep
\* characters more, or the complete text
Lengths(id) ==
  IF calls[id] = 0 THEN 0..Len(TextOf(id))
  ELSE {n \in 0..Len(TextOf(id)) :
          n = Len(TextOf(id)) \/ (n >= sent[id] - 1 /\ n <= sent[id] + MaxStep)}

\* What a parse call did: the state it found, the length of the text of the
\* call before it (-1 when there was none), whether no earlier call threw, the
\* length of its text, the state it left, what it returned and fired
CallRecord(before, prior, clean, n, r) ==
  [called |-> TRUE, before |-> before, prior |-> prior, clean |-> clean, length |-> n,
   after |-> r.state, output |-> r.output, events |-> r.events, threw |-> r.threw]

\* The caller passes the first n characters of the message's text to
\* parse(id, .).  A call that throws returns nothing; the callbacks fired
\* before the throw stay fired and the state keeps what was assigned.
Call(id, n) ==
  /\ msg[id] # NotStreamed
  /\ calls[id] < MaxCalls
  /\ last' = [last EXCEPT ![id] =
                CallRecord(IF id \in DOMAIN messages THEN messages[id] ELSE NewMessageState,
                           sent[id], ~failed[id], n, parse(messages, id, Slice(TextOf(id), 0, n)))]
  /\ messages' = [k \in DOMAIN messages \cup {id} |->
                    IF k = id THEN last'[id].after ELSE messages[k]]
  /\ sent' = [sent EXCEPT ![id] = n]
  /\ growing' = [growing EXCEPT ![id] = @ /\ n > sent[id]]
  /\ calls' = [calls EXCEPT ![id] = @ + 1]
  /\ out' = [out EXCEPT ![id] = @ \o last'[id].output]
  /\ log' = [log EXCEPT ![id] = @ \o last'[id].events]
  /\ failed' = [failed EXCEPT ![id] = @ \/ last'[id].threw]

Parse(id, n) == Call(id, n) /\ UNCHANGED <<msg, trace, storeVars>>

\* reset that keeps the table
reset_keep(table) == table

\* this.#messages.clear()
reset(table) == [id \in {} |-> NewMessageState]

\* reset(): the table is cleared; the caller starts each message over
Clear ==
  /\ messages' = reset(messages)
  /\ sent' = [id \in MsgIds |-> -1]
  /\ growing' = [id \in MsgIds |-> TRUE]
  /\ calls' = [id \in MsgIds |-> 0]
  /\ out' = [id \in MsgIds |-> <<>>]
  /\ log' = [id \in MsgIds |-> <<>>]
  /\ last' = [id \in MsgIds |-> NoCall]
  /\ failed' = [id \in MsgIds |-> FALSE]

Reset == Clear /\ UNCHANGED <<msg, trace, storeVars>>

Next ==
  \/ \E id \in MsgIds : \E n \in Lengths(id) : Parse(id, n)
  \/ Reset

Spec == Init /\ [][Next]_vars

(************************ two ids streamed together ************************)
\* The messages m1 streams when both ids are in use; m2 streams File
TwoNames == {"File", "FileNoPath"}

InitTwo ==
  /\ NewStore
  /\ messages = [id \in {} |-> NewMessageState]
  /\ \E name \in TwoNames : msg = [id \in MsgIds |-> IF id = M1 THEN name ELSE "File"]
  /\ sent = [id \in MsgIds |-> -1]
  /\ growing = [id \in MsgIds |-> TRUE]
  /\ calls = [id \in MsgIds |-> 0]
  /\ out = [id \in MsgIds |-> <<>>]
  /\ log = [id \in MsgIds |-> <<>>]
  /\ last = [id \in MsgIds |-> NoCall]
  /\ failed = [id \in MsgIds |-> FALSE]
  /\ trace = <<>>

\* The entries of trace
ParseCall(id, n) == [id |-> id, length |-> n]
ResetCall == [reset |-> TRUE]
IsReset(e) == "reset" \in DOMAIN e
ParseCalls(t) == SelectSeq(t, LAMBDA e : ~IsReset(e))

\* Where a chunk of the message may end: right after a tag, right before a
\* close tag, at the end of the text
Cuts(name) ==
  {n \in 1..Len(Texts[name]) :
     \/ n = Len(Texts[name])
     \/ At(Texts[name], n - 1) = ">"
     \/ At(Texts[name], n) = "<" /\ At(Texts[name], n + 1) = "/"}

\* parse(id, .) with the text up to a cut no shorter than the text before;
\* MaxCalls parse calls in all
ParseTwo(id, n) ==
  /\ Len(ParseCalls(trace)) < MaxCalls
  /\ n >= sent[id]
  /\ Call(id, n)
  /\ trace' = Append(trace, ParseCall(id, n))
  /\ UNCHANGED <<msg, storeVars>>

\* reset(), once
ResetTwo ==
  /\ \A k \in 1..Len(trace) : ~IsReset(trace[k])
  /\ Clear
  /\ trace' = Append(trace, ResetCall)
  /\ UNCHANGED <<msg, storeVars>>

NextTwo ==
  \/ \E id \in MsgIds : \E n \in Cuts(msg[id]) : ParseTwo(id, n)
  \/ ResetTwo

SpecTwo == InitTwo /\ [][NextTwo]_vars

(*********************** what the properties speak of ***********************)
NoTable == [id \in {} |-> NewMessageState]

\* What a single parse(id, T) on a fresh state returns and fires, T the
\* complete text of the message
OneCall ==
  [id \in MsgIds |-> [name \in DOMAIN Messages |-> parse(NoTable, id, Texts[name])]]

\* The text was passed as strictly growing prefixes, the last being all of it
Delivered(id) == calls[id] > 0 /\ growing[id] /\ sent[id] = Len(TextOf(id))

\* The value a tag's writer gave to the attribute of that exact name
Given(attrs, name) ==
  IF \E k \in 1..Len(attrs) : attrs[k][1] = name
  THEN attrs[CHOOSE k \in 1..Len(attrs) : attrs[k][1] = name][2]
  ELSE Undefined

Lacks(attrs, names) == \E name \in names : Given(attrs, name) = Undefined

\* An action tag that lacks what its type requires
Rejected(attrs) ==
  LET type == Given(attrs, A_type)
      operation == Given(attrs, A_operation)
  IN CASE type = T_navigation -> Lacks(attrs, {A_fromScreen, A_toScreen, A_trigger, A_navigationType})
       [] type = T_screen -> Lacks(attrs, {A_screenId, A_screenName, A_screenType})
       [] type = T_component -> Lacks(attrs, {A_componentName, A_componentType})
       [] type = T_supabase ->
            \/ operation \notin {T_migration, T_query}
            \/ operation = T_migration /\ Lacks(attrs, {A_filePath})
       [] OTHER -> FALSE

WellFormedAction(attrs) ==
  /\ ~Rejected(attrs)
  /\ Given(attrs, A_type) = T_file => ~Lacks(attrs, {A_filePath})

\* The actions of a message, in document order
ActionsOf(parts) ==
  Concat([k \in 1..Len(parts) |->
            IF parts[k].kind = "artifact" THEN parts[k].actions ELSE <<>>])

WellFormed(name) ==
  \A k \in 1..Len(ActionsOf(Messages[name])) :
    WellFormedAction(ActionsOf(Messages[name])[k].attrs)

HasQuickActions(name) ==
  \E k \in 1..Len(Messages[name]) : Messages[name][k].kind = "quickActions"

Count(events, kind) == Len(SelectSeq(events, LAMBDA e : e.event = kind))

(********************************* C1 *********************************)
\* C1: for a text whose container, action and quick-actions tags are all
\* well-formed, passed as strictly growing prefixes ending in the whole text
\* to a fresh message id, the returned fragments concatenated equal the
\* fragment of a single parse of the whole text on a fresh state.
C1_Resumption ==
  \A id \in MsgIds :
    (msg[id] # NotStreamed /\ Delivered(id) /\ WellFormed(msg[id]))
      => out[id] = OneCall[id][msg[id]].output

(********************************* C2 *********************************)
\* C2: for every message id and every parse call, whatever text is passed,
\* the stored cursor after the call is at least the cursor before the call.
C2_CursorNeverRewinds ==
  \A id \in MsgIds :
    last[id].called => last[id].after.position >= last[id].before.position

\* a call whose text ends before the stored cursor, after a call that moved it
C2_Witness ==
  \E id \in MsgIds :
    /\ last[id].called
    /\ last[id].before.position > 0
    /\ last[id].length < last[id].before.position

(********************************* C3 *********************************)
\* an actionClose with this actionId among events j+1 .. k-1
ClosedBetween(events, actionId, j, k) ==
  \E c \in (j + 1)..(k - 1) :
    events[c].event = "actionClose" /\ events[c].actionId = actionId

DocumentOrder(events) ==
  \A k \in 1..Len(events) :
    /\ events[k].event = "actionOpen" =>
         /\ \E j \in 1..(k - 1) :
              events[j].event = "artifactOpen" /\ events[j].id = events[k].artifactId
         /\ \A j \in 1..(k - 1) :
              events[j].event = "actionOpen" => ClosedBetween(events, events[j].actionId, j, k)
    /\ events[k].event \in {"actionStream", "actionClose"} =>
         \E j \in 1..(k - 1) :
           events[j].event = "actionOpen" /\ events[j].actionId = events[k].actionId
    /\ events[k].event = "artifactClose" =>
         \A j \in 1..(k - 1) :
           (events[j].event = "actionOpen" /\ events[j].artifactId = events[k].id)
             => ClosedBetween(events, events[j].actionId, j, k)

\* C3: for every message and any sequence of parse calls with growing text,
\* the callbacks fire in document order: artifactOpen before every actionOpen
\* of the container, each actionOpen before the actionStream and actionClose
\* with its actionId, an actionClose before the next actionOpen, artifactClose
\* after the actionClose of every action opened in the container.
C3_DocumentOrder ==
  \A id \in MsgIds : growing[id] => DocumentOrder(log[id])

(********************************* C4 *********************************)
Lifecycle(events) == SelectSeq(events, LAMBDA e : e.event # "actionStream")

\* C4: for a text of prose, containers and actions, without quick-actions
\* block and with all tags well-formed, the artifactOpen, actionOpen,
\* actionClose and artifactClose events, with their ids and final contents,
\* are the same for every delivery as growing prefixes as for a single parse
\* call with the full text.
C4_SameLifecycle ==
  \A id \in MsgIds :
    (msg[id] # NotStreamed /\ Delivered(id) /\ WellFormed(msg[id])
       /\ ~HasQuickActions(msg[id]))
      => Lifecycle(log[id]) = Lifecycle(OneCall[id][msg[id]].events)

\* a delivery in three calls, the last of which found the cursor inside an
\* action and closed it
C4_Witness ==
  \E id \in MsgIds :
    /\ msg[id] # NotStreamed /\ Delivered(id) /\ WellFormed(msg[id])
    /\ ~HasQuickActions(msg[id])
    /\ calls[id] = MaxCalls
    /\ last[id].before.insideAction
    /\ Count(last[id].events, "actionClose") > 0
    /\ Count(log[id], "actionOpen") = 2

(********************************* C5 *********************************)
EchoHi == <<"e","c","h","o"," ","h","i">>

\* The text of MsgShell passed in two calls, the first ending in the middle of
\* `echo hi`, the second passing all of it
SplitInsideEchoHi(id) ==
  LET start == IndexOf(Texts["Shell"], EchoHi, 0)
  IN /\ msg[id] = "Shell"
     /\ calls[id] = 2
     /\ last[id].prior > start /\ last[id].prior < start + Len(EchoHi)
     /\ last[id].length = Len(Texts["Shell"])

Kinds(events) == [k \in 1..Len(events) |-> events[k].event]

IsPrefix(s, t) == Len(s) <= Len(t) /\ SubSeq(t, 1, Len(s)) = s

\* C5 as stated: the container with the shell action `echo hi`, fed in two
\* parse calls split in the middle of `echo hi`, produces exactly one
\* actionOpen, then one or more actionStream events with growing partial
\* content ending in `echo hi`, then one actionClose whose content is `echo hi`
\* followed by a newline, then artifactClose.
C5_AsStated ==
  \A id \in MsgIds : SplitInsideEchoHi(id) =>
    LET streams == SelectSeq(log[id], LAMBDA e : e.event = "actionStream")
        n == Len(streams)
    IN /\ n >= 1
       /\ Kinds(log[id]) = <<"artifactOpen", "actionOpen">>
                             \o [k \in 1..n |-> "actionStream"]
                             \o <<"actionClose", "artifactClose">>
       /\ \A k \in 1..(n - 1) : IsPrefix(streams[k].action.content, streams[k + 1].action.content)
       /\ streams[n].action.content = EchoHi
       /\ log[id][n + 3].action.content = EchoHi \o <<"\n">>

\* C5, amended: the same delivery produces artifactOpen, exactly one
\* actionOpen, no actionStream (a stream event is fired for a file action
\* only), one actionClose with the actionId of the open and the content
\* `echo hi` with no newline after it (the newline is appended to a file
\* action's content only), then artifactClose.
C5_ShellScenario ==
  \A id \in MsgIds : SplitInsideEchoHi(id) =>
    /\ Kinds(log[id]) = <<"artifactOpen", "actionOpen", "actionClose", "artifactClose">>
    /\ log[id][2].action.type = T_shell
    /\ log[id][2].actionId = <<"0">>
    /\ log[id][3].actionId = <<"0">>
    /\ log[id][3].action.content = EchoHi
    /\ Kinds(last[id].events) = <<"actionClose", "artifactClose">>

C5_Witness == \E id \in MsgIds : SplitInsideEchoHi(id) /\ Len(log[id]) = 4

(********************************* C6 *********************************)
\* C6: parsing a container that holds `<boltAction type="file">data</boltAction>`
\* never throws, whether the text is delivered whole or in chunks that end
\* inside the action content: the action is opened with filePath undefined
\* and closed with its content captured.
C6_FileWithoutPath ==
  \A id \in MsgIds : msg[id] = "FileNoPath" =>
    /\ ~failed[id]
    /\ Delivered(id) =>
         /\ Kinds(Lifecycle(log[id]))
              = <<"artifactOpen", "actionOpen", "actionClose", "artifactClose">>
         /\ Lifecycle(log[id])[2].action.filePath = Undefined

(********************************* C7 *********************************)
ActionTag(action) == ARTIFACT_ACTION_TAG_OPEN \o AttrText(action.attrs) \o <<">">>

\* The latest call, no call before it having thrown, started at or before the
\* open tag of the k-th action of the message and was given the whole tag
ScannedTag(id, k) ==
  LET action == ActionsOf(Messages[msg[id]])[k]
      start == IndexOf(TextOf(id), ActionTag(action), 0)
  IN /\ last[id].called /\ last[id].clean
     /\ last[id].before.position <= start
     /\ last[id].length >= start + Len(ActionTag(action))
     /\ \A j \in 1..(k - 1) : WellFormedAction(ActionsOf(Messages[msg[id]])[j].attrs)

\* C7: when an action open tag of type navigation, screen or component lacks
\* one of its required attributes, or a supabase tag has no operation, an
\* operation other than migration and query, or is a migration without
\* filePath, the parse call throws and no actionOpen fires for that tag.
C7_MissingAttributesThrow ==
  \A id \in MsgIds : msg[id] # NotStreamed =>
    \A k \in 1..Len(ActionsOf(Messages[msg[id]])) :
      (Rejected(ActionsOf(Messages[msg[id]])[k].attrs) /\ ScannedTag(id, k))
        => last[id].threw /\ Count(log[id], "actionOpen") = k - 1

(********************************* C8 *********************************)
QuickActionsStart(id) == IndexOf(TextOf(id), BOLT_QUICK_ACTIONS_OPEN, 0)
QuickActionsEnd(id) ==
  IndexOf(TextOf(id), BOLT_QUICK_ACTIONS_CLOSE, 0) + Len(BOLT_QUICK_ACTIONS_CLOSE)

\* The latest call found the cursor at the open marker of the quick-actions
\* block, outside a container, and its text held the whole open marker
AtOpenMarker(id) ==
  /\ msg[id] # NotStreamed
  /\ HasQuickActions(msg[id])
  /\ last[id].called
  /\ ~last[id].before.insideArtifact
  /\ last[id].before.position = QuickActionsStart(id)
  /\ last[id].length >= QuickActionsStart(id) + Len(BOLT_QUICK_ACTIONS_OPEN)

\* C8: if the unscanned text begins with the quick-actions open marker and
\* the close marker is not yet in the text, the parse call leaves the cursor
\* at the open marker and emits none of the block's characters.
C8_WaitsForCloseMarker ==
  \A id \in MsgIds :
    (AtOpenMarker(id) /\ last[id].length < QuickActionsEnd(id))
      => /\ last[id].after.position = last[id].before.position
         /\ last[id].output = <<>>

(********************************* C9 *********************************)
QuickEntries(name) ==
  Messages[name][CHOOSE k \in 1..Len(Messages[name]) :
                   Messages[name][k].kind = "quickActions"].entries

\* the attribute's value, the empty string when the entry has none
GivenOrEmpty(attrs, name) == IF Given(attrs, name) = Undefined THEN <<>> ELSE Given(attrs, name)

ExpectedButton(entry) ==
  <<"<","b","u","t","t","o","n"," ","c","l","a","s","s","=","\"","_","_","b","o","l","t","Q","u","i","c","k","A","c","t","i","o","n","_","_","\""," ","d","a","t","a","-","b","o","l","t","-","q","u","i","c","k","-","a","c","t","i","o","n","=","\"","t","r","u","e","\""," ","d","a","t","a","-","t","y","p","e","=","\"">>
    \o GivenOrEmpty(entry.attrs, A_type)
    \o <<"\""," ","d","a","t","a","-","m","e","s","s","a","g","e","=","\"">> \o GivenOrEmpty(entry.attrs, A_message)
    \o <<"\""," ","d","a","t","a","-","p","a","t","h","=","\"">> \o GivenOrEmpty(entry.attrs, A_path)
    \o <<"\""," ","d","a","t","a","-","h","r","e","f","=","\"">> \o GivenOrEmpty(entry.attrs, A_href)
    \o <<"\"",">">> \o entry.label \o <<"<","/","b","u","t","t","o","n",">">>

ExpectedGroup(entries) ==
  <<"<","d","i","v"," ","c","l","a","s","s","=","\"","_","_","b","o","l","t","Q","u","i","c","k","A","c","t","i","o","n","_","_","\""," ","d","a","t","a","-","b","o","l","t","-","q","u","i","c","k","-","a","c","t","i","o","n","=","\"","t","r","u","e","\"",">">>
    \o Concat([k \in 1..Len(entries) |-> ExpectedButton(entries[k])])
    \o <<"<","/","d","i","v",">">>

\* C9: a quick-actions block fully present in one parse call is replaced in
\* the output by one group element holding one button per entry, in document
\* order, each with the entry's type, message, path and href (the empty string
\* when absent) as data attributes and its label as text; the cursor moves
\* past the close marker and no callback fires.
C9_QuickActionsRendered ==
  \A id \in MsgIds :
    (AtOpenMarker(id) /\ last[id].length >= QuickActionsEnd(id))
      => /\ ~last[id].threw
         /\ last[id].after.position >= QuickActionsEnd(id)
         /\ last[id].output = ExpectedGroup(QuickEntries(msg[id]))
                                \o Slice(TextOf(id), QuickActionsEnd(id), last[id].after.position)
         /\ last[id].events = <<>>

\* a block of two entries, one without message and path, one without message
\* and href, rendered by a call that found the cursor at its open marker
C9_Witness ==
  \E id \in MsgIds :
    /\ AtOpenMarker(id) /\ last[id].length >= QuickActionsEnd(id)
    /\ Len(QuickEntries(msg[id])) = 2
    /\ last[id].before.position > 0

(********************************* C10 ********************************)
ActionIds(events) ==
  \A k \in 1..Len(events) :
    /\ events[k].event = "actionOpen" =>
         /\ events[k].actionId = String(Count(SubSeq(events, 1, k), "actionOpen") - 1)
         /\ \A j \in 1..(k - 1) :
              events[j].event = "actionOpen" => events[j].actionId # events[k].actionId
    /\ events[k].event \in {"actionStream", "actionClose"} =>
         \E j \in 1..(k - 1) :
           /\ events[j].event = "actionOpen"
           /\ \A m \in (j + 1)..(k - 1) : events[m].event # "actionOpen"
           /\ events[j].actionId = events[k].actionId

\* C10: within one message the k-th actionOpen carries the decimal string of
\* k-1 as actionId, every actionStream and actionClose carries the actionId of
\* the most recent actionOpen, and no two actionOpen events share an actionId.
C10_ActionIds ==
  \A id \in MsgIds : ActionIds(log[id])

(********************************* C11 *********************************)
\* JSON.parse('{"a":1}')
ObjectA1 ==
  [json |-> "object",
   members |-> <<[key |-> <<"a">>, value |-> [json |-> "number", digits |-> <<"1">>]]>>]

\* The actionOpen callbacks fired so far for the id
Opened(id) == SelectSeq(log[id], LAMBDA e : e.event = "actionOpen")

\* C11: for a screen action tag written with props="{\"a\":1}", the record
\* passed to actionOpen has a props field that deep-equals the object {a: 1}.
C11_PropsParsed ==
  \A id \in MsgIds :
    msg[id] = "ScreenProps" =>
      \A k \in 1..Len(Opened(id)) :
        /\ "props" \in DOMAIN Opened(id)[k].action
        /\ Opened(id)[k].action.props = ObjectA1

(********************************* C12 *********************************)
\* The messages with a defect the parser only warns about
Recoverable ==
  {"ArtifactNoId", "ArtifactNoTitle", "UnknownType", "NoType", "ScreenBadProps", "NavBadParams"}

\* The container of a message that holds exactly one
ArtifactOf(name) == CHOOSE part \in Range(Messages[name]) : part.kind = "artifact"

\* C12: a container open tag without id or without title, an action tag whose
\* type is unknown or absent, and screen props or navigation params that are
\* not JSON never abort: no call throws, artifactOpen and actionOpen fire with
\* what the tags give (a missing attribute undefined, the props or params field
\* absent), and a complete delivery closes the action with its content and
\* closes the container.
C12_RecoverableContinue ==
  \A id \in MsgIds :
    msg[id] \in Recoverable =>
      LET artifact == ArtifactOf(msg[id])
          action == artifact.actions[1]
          events == Lifecycle(log[id])
      IN /\ ~failed[id]
         /\ \A k \in 1..Len(log[id]) :
              /\ log[id][k].event = "artifactOpen" =>
                   /\ log[id][k].id = Given(artifact.attrs, A_id)
                   /\ log[id][k].title = Given(artifact.attrs, A_title)
              /\ log[id][k].event = "actionOpen" =>
                   /\ log[id][k].action.type = Given(action.attrs, A_type)
                   /\ "props" \notin DOMAIN log[id][k].action
                   /\ "params" \notin DOMAIN log[id][k].action
         /\ Delivered(id) =>
              /\ Kinds(events) = <<"artifactOpen", "actionOpen", "actionClose", "artifactClose">>
              /\ events[3].action.content = action.content
              /\ out[id] = createArtifactElement(id)

\* a screen action with props that are not JSON was opened and closed
C12_Witness ==
  \E id \in MsgIds :
    /\ msg[id] = "ScreenBadProps"
    /\ Delivered(id)
    /\ Len(Lifecycle(log[id])) = 4

(********************************* C13 *********************************)
ConstX == <<"c","o","n","s","t"," ","x","=","1",";">>
\* a fenced block that holds const x=1;
FencedConstX == CODE_FENCE \o <<"\n">> \o ConstX \o <<"\n">> \o CODE_FENCE

\* The final content of the file action of each message with one
FinalContent ==
  [File |-> <<"x", "<", "\n">>,
   FileFencedTs |-> ConstX \o <<"\n">>,
   FileFencedMd |-> FencedConstX \o <<"\n">>]

Closed(id) == SelectSeq(log[id], LAMBDA e : e.event = "actionClose")

RECURSIVE SinceReset(_)
SinceReset(t) ==
  IF t = <<>> THEN <<>>
  ELSE IF IsReset(t[Len(t)]) THEN <<>>
  ELSE Append(SinceReset(SubSeq(t, 1, Len(t) - 1)), t[Len(t)])

\* The parse calls for the id among them
Own(id) == SelectSeq(SinceReset(trace), LAMBDA e : e.id = id)

\* The id's calls made on a parser that is given no other call: the table, the
\* fragments and the callbacks after them
AfterCall(id, before, r) ==
  [table |-> (id :> r.state), out |-> before.out \o r.output, log |-> before.log \o r.events]

RECURSIVE Alone(_, _)
Alone(id, own) ==
  IF own = <<>> THEN [table |-> NoTable, out |-> <<>>, log |-> <<>>]
  ELSE CHOOSE after \in
         UNION {{AfterCall(id, before, r) :
                   r \in {parse(before.table, id, Slice(TextOf(id), 0, own[Len(own)].length))}} :
                before \in {Alone(id, SubSeq(own, 1, Len(own) - 1))}} : TRUE

\* C14: parse calls for one id leave the state stored for the other id as it
\* was: however the calls for two ids interleave, the state kept for each id,
\* the fragments returned for it and the callbacks fired for it are those of
\* the id's own calls made alone.
C14_Isolation ==
  \A id \in MsgIds :
    \A alone \in {Alone(id, Own(id))} :
      /\ id \in DOMAIN messages <=> Own(id) # <<>>
      /\ id \in DOMAIN messages => messages[id] = alone.table[id]
      /\ out[id] = alone.out
      /\ log[id] = alone.log

\* m1 was left inside an action, then m2 was parsed and left inside its
\* action, then m1's action was closed
C14_Witness ==
  /\ Len(trace) = 3
  /\ \A k \in 1..3 : ~IsReset(trace[k])
  /\ trace[1].id = M1 /\ trace[2].id = M2 /\ trace[3].id = M1
  /\ last[M1].before.insideAction
  /\ messages[M2].insideAction
  /\ Len(Closed(M1)) = 1

(********************************* C15 *********************************)
\* the kinds the action types declare
ScreenTypes ==
  {<<"p","a","g","e">>, <<"m","o","d","a","l">>, <<"d","r","a","w","e","r">>,
   <<"c","o","m","p","o","n","e","n","t">>}
NavigationTypes ==
  {<<"p","u","s","h">>, <<"r","e","p","l","a","c","e">>, <<"m","o","d","a","l">>,
   <<"d","r","a","w","e","r">>}
ComponentTypes ==
  {<<"s","h","a","r","e","d">>, <<"s","c","r","e","e","n","-","s","p","e","c","i","f","i","c">>,
   <<"l","a","y","o","u","t">>}

\* C15: every screen record passed to actionOpen has a screenType among page,
\* modal, drawer and component, every navigation record a navigationType among
\* push, replace, modal and drawer, every component record a componentType
\* among shared, screen-specific and layout.
C15_TypesEnumerated ==
  \A id \in MsgIds :
    \A k \in 1..Len(Opened(id)) :
      LET action == Opened(id)[k].action
      IN /\ action.type = T_screen => action.screenType \in ScreenTypes
         /\ action.type = T_navigation => action.navigationType \in NavigationTypes
         /\ action.type = T_component => action.componentType \in ComponentTypes

(********************************* C16 *********************************)
\* The messages whose one action is a supabase action the parser accepts
SupabaseNames ==
  {name \in DOMAIN Messages :
     /\ Len(ActionsOf(Messages[name])) = 1
     /\ Given(ActionsOf(Messages[name])[1].attrs, A_type) = T_supabase
     /\ ~Rejected(ActionsOf(Messages[name])[1].attrs)}

\* The record has the field, with the value the tag gives to the attribute
Carries(action, field, attrs, name) ==
  Given(attrs, name) # Undefined =>
    field \in DOMAIN action /\ action[field] = Given(attrs, name)

\* C16: the actionOpen record of a supabase tag, whether its operation is
\* migration or query, has the projectId the tag gives and the filePath the
\* tag gives.
C16_SupabaseFields ==
  \A id \in MsgIds :
    msg[id] \in SupabaseNames =>
      \A k \in 1..Len(Opened(id)) :
        /\ Carries(Opened(id)[k].action, "projectId", ActionsOf(Messages[msg[id]])[1].attrs, A_projectId)
        /\ Carries(Opened(id)[k].action, "filePath", ActionsOf(Messages[msg[id]])[1].attrs, A_filePath)

(********************************* C17 *********************************)
WasReset == \E k \in 1..Len(trace) : IsReset(trace[k])

\* The table reset() discarded: what the calls before it had stored
Discarded(id) ==
  LET k == CHOOSE j \in 1..Len(trace) : IsReset(trace[j])
  IN Alone(id, SelectSeq(SubSeq(trace, 1, k - 1), LAMBDA e : e.id = id)).table

\* C17: reset() discards the state of every message id, so the first parse
\* call for an id after it, also for an id that was inside a container or an
\* action, finds no state, and returns and fires what the same call returns
\* and fires on a newly constructed parser, the actionIds starting at "0".
C17_ResetStartsOver ==
  /\ (WasReset /\ IsReset(trace[Len(trace)])) => DOMAIN messages = {}
  /\ \A id \in MsgIds :
       (WasReset /\ calls[id] = 1) =>
         \A fresh \in {parse(NoTable, id, Slice(TextOf(id), 0, last[id].length))} :
           /\ last[id].before = NewMessageState
           /\ last[id].output = fresh.output
           /\ last[id].events = fresh.events
           /\ last[id].threw = fresh.threw
           /\ last[id].after = fresh.state
           /\ Opened(id) # <<>> => Opened(id)[1].actionId = <<"0">>

\* reset() came when m1 was inside its first action and m2 inside its
\* container; after it m1's action tag was parsed again
C17_Witness ==
  /\ WasReset
  /\ M1 \in DOMAIN Discarded(M1) /\ Discarded(M1)[M1].insideAction
  /\ Discarded(M1)[M1].actionId = 1
  /\ M2 \in DOMAIN Discarded(M2) /\ Discarded(M2)[M2].insideArtifact
  /\ calls[M1] = 1
  /\ Opened(M1) # <<>>

(********************************* C18 *********************************)
\* Where the k-th part of a message starts in its text
PartStart(parts, k) == Len(MessageText(SubSeq(parts, 1, k - 1)))

ContainerTag(part) == ARTIFACT_TAG_OPEN \o AttrText(part.attrs) \o <<">">>

\* Where the j-th action of a container starts, counted from the container's start
ActionStart(part, j) ==
  Len(ContainerTag(part)) + Len(Concat([m \in 1..(j - 1) |-> ActionText(part.actions[m])]))

\* The elements of a message that the parser has to wait for: an open tag from
\* its < (start) to its > (done), the content of an action from the end of the
\* open tag (start) to the end of its close tag (done)
ElementsOf(parts) ==
  UNION {
    IF parts[k].kind # "artifact" THEN {}
    ELSE {[kind |-> "containerTag", start |-> PartStart(parts, k),
           done |-> PartStart(parts, k) + Len(ContainerTag(parts[k]))]}
         \cup UNION {
           LET from == PartStart(parts, k) + ActionStart(parts[k], j)
               tagEnd == from + Len(ActionTag(parts[k].actions[j]))
           IN {[kind |-> "actionTag", start |-> from, done |-> tagEnd],
               [kind |-> "openAction", start |-> tagEnd,
                done |-> from + Len(ActionText(parts[k].actions[j]))]} :
           j \in 1..Len(parts[k].actions)}
    : k \in 1..Len(parts)}

Elements == [name \in DOMAIN Messages |-> ElementsOf(Messages[name])]

\* The positions of the prose of a message and the starts of its containers
OutsidePositions ==
  [name \in DOMAIN Messages |->
     UNION {IF Messages[name][k].kind = "prose"
            THEN PartStart(Messages[name], k)..(PartStart(Messages[name], k + 1) - 1)
            ELSE IF Messages[name][k].kind = "artifact"
            THEN {PartStart(Messages[name], k)}
            ELSE {} : k \in 1..Len(Messages[name])}]

\* Where the incomplete element at the end of the first n characters starts:
\* an open tag without its >, an action without the whole of its close tag, a
\* proper prefix of the container's open marker
IncompleteStarts(name, n) ==
  {e.start : e \in {e \in Elements[name] :
                      /\ e.kind \in {"containerTag", "actionTag"}
                      /\ e.start < n /\ n < e.done}}
  \cup {e.start : e \in {e \in Elements[name] :
                      /\ e.kind = "openAction"
                      /\ e.start <= n /\ n < e.done}}
  \cup {p \in OutsidePositions[name] :
          /\ p < n /\ n - p < Len(ARTIFACT_TAG_OPEN)
          /\ Slice(Texts[name], p, n) = Slice(ARTIFACT_TAG_OPEN, 0, n - p)}

\* C18: when the text of a call ends inside an element that is incomplete (an
\* action whose close tag has not wholly arrived, an open tag whose > has not
\* arrived, a proper prefix of <boltArtifact), the call leaves the cursor at
\* or before the start of the element unless it was past it already, and
\* returns, fires (actionStream aside), throws and stores what it does for the
\* text cut at the start of the element: no output for the element's
\* characters, no open or close callback for it, no error.
C18_IncompleteElementWaits ==
  \A id \in MsgIds :
    last[id].called =>
      \A start \in IncompleteStarts(msg[id], last[id].length) :
        \A cut \in {parse((id :> last[id].before), id, Slice(TextOf(id), 0, start))} :
          /\ last[id].after.position <= start
               \/ last[id].after.position = last[id].before.position
          /\ last[id].threw = cut.threw
          /\ last[id].output = cut.output
          /\ Lifecycle(last[id].events) = Lifecycle(cut.events)
          /\ last[id].after = cut.state

(********************************* C19 *********************************)
\* The containers of a message
Containers(name) == SelectSeq(Messages[name], LAMBDA part : part.kind = "artifact")

\* The fragment for a message of prose and containers: the prose as it is, one
\* placeholder for each container
ProseAndPlaceholders(name, id) ==
  Concat([k \in 1..Len(Messages[name]) |->
            IF Messages[name][k].kind = "prose" THEN Messages[name][k].text
            ELSE createArtifactElement(id)])

\* C19: outside a container every complete <boltArtifact ...> open tag fires
\* artifactOpen and is replaced by one placeholder, whatever prose precedes
\* it, a lone < or the first characters of a container tag included: the
\* characters that failed to match are flushed and the < of the tag is kept.
C19_EveryContainerOpens ==
  \A id \in MsgIds :
    (/\ msg[id] # NotStreamed
     /\ Delivered(id)
     /\ ~failed[id]
     /\ ~HasQuickActions(msg[id])
     /\ Containers(msg[id]) # <<>>) =>
      /\ Count(log[id], "artifactOpen") = Len(Containers(msg[id]))
      /\ out[id] = ProseAndPlaceholders(msg[id], id)

(********************************* C20 *********************************)
\* C20: in every state stored for a message id, after any calls, throwing
\* calls included, insideAction implies insideArtifact, and currentArtifact is
\* defined exactly when insideArtifact is true.
C20_StateShape ==
  \A id \in DOMAIN messages :
    /\ messages[id].insideAction => messages[id].insideArtifact
    /\ messages[id].currentArtifact # NoArtifact <=> messages[id].insideArtifact

\* a call that found the state outside an action threw at an action tag and
\* left insideAction set
C20_Witness ==
  \E id \in DOMAIN messages :
    /\ last[id].threw
    /\ messages[id].insideAction
    /\ messages[id].insideArtifact
    /\ ~last[id].before.insideAction

(********************************* C23 *********************************)
\* Every file action of the message has its path, so that a call on the
\* message throws in #parseActionTag only
ThrowsOnTagOnly(name) ==
  \A k \in 1..Len(ActionsOf(Messages[name])) :
    Given(ActionsOf(Messages[name])[k].attrs, A_type) = T_file
      => ~Lacks(ActionsOf(Messages[name])[k].attrs, {A_filePath})

\* Each actionStream and actionClose follows an actionOpen of its actionId,
\* and no artifactOpen, actionOpen, actionClose or artifactClose fires twice
NothingOrphanedOrRepeated(events) ==
  /\ \A k \in 1..Len(events) :
       events[k].event \in {"actionStream", "actionClose"} =>
         \E j \in 1..(k - 1) :
           events[j].event = "actionOpen" /\ events[j].actionId = events[k].actionId
  /\ \A j \in 1..Len(events) : \A k \in 1..Len(events) :
       (j # k /\ events[j].event # "actionStream") => events[j] # events[k]

\* C23: when a parse call throws on a malformed action tag, the stored state
\* of the message (position, insideArtifact, insideAction, currentArtifact,
\* currentAction, actionId) is what it was before the call, and no later call
\* fires actionStream or actionClose for an action without actionOpen or
\* fires again a callback already delivered
C23_ThrowKeepsState ==
  \A id \in MsgIds :
    (msg[id] # NotStreamed /\ ThrowsOnTagOnly(msg[id])) =>
      /\ (last[id].called /\ last[id].threw) => last[id].after = last[id].before
      /\ failed[id] => NothingOrphanedOrRepeated(log[id])

\* C23, the stored state alone
C23_StateAlone ==
  \A id \in MsgIds :
    (msg[id] # NotStreamed /\ ThrowsOnTagOnly(msg[id]) /\ last[id].called /\ last[id].threw)
      => last[id].after = last[id].before

\* C23, the later callbacks alone
C23_CallbacksAlone ==
  \A id \in MsgIds :
    (msg[id] # NotStreamed /\ ThrowsOnTagOnly(msg[id]) /\ failed[id])
      => NothingOrphanedOrRepeated(log[id])

(********************************* C24 *********************************)
\* The number of places where pat occurs in s
Places(s, pat) == Cardinality({p \in 0..(Len(s) - Len(pat)) : StartsWith(s, pat, p)})

\* What stands between the open tag and the close tag of a container
InsideOf(part) == Concat([k \in 1..Len(part.actions) |-> ActionText(part.actions[k])])

\* The output shows nothing of what stands inside the containers of the
\* message: no action content, no action tag
Hides(output, name) ==
  /\ \A k \in 1..Len(Containers(name)) :
       InsideOf(Containers(name)[k]) # <<>> => Places(output, InsideOf(Containers(name)[k])) = 0
  /\ Places(output, ARTIFACT_ACTION_TAG_OPEN) = 0
  /\ Places(output, ARTIFACT_ACTION_TAG_CLOSE) = 0
  /\ Places(output, ARTIFACT_TAG_CLOSE) = 0

\* C24: what stands between the open tag and the close tag of a container is
\* in no parse output, and each container gives one placeholder element, in
\* the output of the call that recognizes its open tag
C24_ContainerHidden ==
  \A id \in MsgIds :
    (msg[id] # NotStreamed /\ last[id].called /\ ~last[id].threw) =>
      /\ Hides(last[id].output, msg[id])
      /\ Places(last[id].output, createArtifactElement(id))
           = Count(last[id].events, "artifactOpen")
      /\ (Delivered(id) /\ ~failed[id]) =>
           Places(out[id], createArtifactElement(id)) = Len(Containers(msg[id]))

\* C24 for the messages whose container tags follow no lone < or cut marker
C24_Elsewhere ==
  \A id \in MsgIds :
    (msg[id] \notin {NotStreamed, "DoubleOpen", "PartialOpen"}
       /\ last[id].called /\ ~last[id].threw) =>
      /\ Hides(last[id].output, msg[id])
      /\ Places(last[id].output, createArtifactElement(id))
           = Count(last[id].events, "artifactOpen")
      /\ (Delivered(id) /\ ~failed[id]) =>
           Places(out[id], createArtifactElement(id)) = Len(Containers(msg[id]))

(********************************* C25 *********************************)
\* The latest call on id passed the text of the call before it, or a text
\* shorter than the stored position
SameTextAgain(id) ==
  /\ last[id].called /\ last[id].prior >= 0
  /\ last[id].length = last[id].prior \/ last[id].length < last[id].before.position

\* The latest call on id returned the empty string, fired no artifactOpen,
\* actionOpen, actionClose or artifactClose and left the stored state as it was
Idle(id) ==
  /\ ~last[id].threw
  /\ last[id].output = <<>>
  /\ Lifecycle(last[id].events) = <<>>
  /\ last[id].after = last[id].before

\* C25: parse(id, T) right after parse(id, T), or with a text shorter than
\* the stored position, returns the empty string, fires no artifactOpen,
\* actionOpen, actionClose or artifactClose, and leaves the stored state as
\* it was
C25_SecondCallIdle ==
  \A id \in MsgIds : (msg[id] # NotStreamed /\ SameTextAgain(id)) => Idle(id)

\* C25 for the ids on which no call has thrown
C25_AfterReturns ==
  \A id \in MsgIds :
    (msg[id] # NotStreamed /\ SameTextAgain(id) /\ last[id].clean) => Idle(id)

(********************************* C26 *********************************)
\* The record of the k-th actionOpen fired in one call with the whole message
RecordOf(name, k) ==
  SelectSeq(OneCall[M1][name].events, LAMBDA e : e.event = "actionOpen")[k].action

\* C26: the variant of an action record follows the tag's own type attribute
\* wherever it stands among the attributes: the screen tag written with
\* screenType before type gives the record of the tag written with type first
C26_TypeFromOwnAttribute ==
  \A id \in MsgIds :
    (msg[id] # NotStreamed /\ ~failed[id]) =>
      \A k \in 1..Len(Opened(id)) :
        /\ Opened(id)[k].action.type = Given(ActionsOf(Messages[msg[id]])[k].attrs, A_type)
        /\ msg[id] = "ScreenTypeFirst" => Opened(id)[k].action = RecordOf("Screen", k)

\* C26 for the tags whose type attribute comes first
C26_TypeFirst ==
  \A id \in MsgIds :
    (msg[id] \notin {NotStreamed, "TypeLast", "ScreenTypeFirst"} /\ ~failed[id]) =>
      \A k \in 1..Len(Opened(id)) :
        Opened(id)[k].action.type = Given(ActionsOf(Messages[msg[id]])[k].attrs, A_type)

(********************************* C27 *********************************)
\* The text of the message has been passed whole, after growing prefixes, and
\* no call threw
Complete(id) == msg[id] # NotStreamed /\ Delivered(id) /\ ~failed[id]

\* The stored state is outside every container and action, at the end of the text
AtEnd(id) ==
  /\ messages[id].position = Len(TextOf(id))
  /\ ~messages[id].insideArtifact
  /\ ~messages[id].insideAction

\* The prose of the message, in order
ProseOf(name) ==
  Concat([k \in 1..Len(Messages[name]) |->
            IF Messages[name][k].kind = "prose" THEN Messages[name][k].text ELSE <<>>])

\* C27: once the caller has passed the complete text of a message whose
\* containers, actions and quick-actions blocks are well-formed and closed,
\* the position is the length of the text, the state is outside every
\* container and action, and every prose character outside the tagged
\* regions is in the concatenated output, a < or a prefix of <boltArtifact
\* that ends the message included
C27_CompleteTextConsumed ==
  \A id \in MsgIds :
    (Complete(id) /\ WellFormed(msg[id])) =>
      /\ AtEnd(id)
      /\ ~HasQuickActions(msg[id]) => out[id] = ProseAndPlaceholders(msg[id], id)

\* C27 for the messages that do not end in a < or a prefix of <boltArtifact
\* and have no container after a lone < or a cut marker
C27_Elsewhere ==
  \A id \in MsgIds :
    (Complete(id) /\ WellFormed(msg[id])
       /\ msg[id] \notin {"Prose", "DoubleOpen", "PartialOpen"}) =>
      /\ AtEnd(id)
      /\ ~HasQuickActions(msg[id]) => out[id] = ProseAndPlaceholders(msg[id], id)

(********************************* C28 *********************************)
\* The steps of the loop that matches ARTIFACT_TAG_OPEN in the iteration at
\* index i: one for each character added to potentialTag
markerSteps(state, input, i) ==
  IF /\ ~(StartsWith(input, BOLT_QUICK_ACTIONS_OPEN, i)
          /\ IndexOf(input, BOLT_QUICK_ACTIONS_CLOSE, i) # -1)
     /\ ~state.insideArtifact
     /\ At(input, i) = "<" /\ At(input, i + 1) # "/"
  THEN Len(matchArtifactOpen(input, i, <<>>).potentialTag)
  ELSE 0

\* The iterations of the scanning loop from index i: the index each one
\* starts at, whether it leaves the loop, the index the loop goes on at and
\* the steps of the marker loop.  A run of characters copied to the output
\* counts as one iteration; the list ends at an iteration that does not advance.
RECURSIVE Iterations(_, _, _, _)
Iterations(state, messageId, input, i) ==
  IF ~(i < Len(input)) THEN <<>>
  ELSE CHOOSE list \in
         {<<[from |-> i, leaves |-> ~IsContinue(r), to |-> IF IsContinue(r) THEN r.i ELSE i,
             steps |-> markerSteps(state, input, i)]>>
            \o (IF IsContinue(r) /\ r.i > i
                THEN Iterations(r.state, messageId, input, r.i) ELSE <<>>) :
            r \in {iteration(state, messageId, input, i, <<>>, <<>>)}} : TRUE

\* The iterations of the latest call on id
LastIterations(id) ==
  Iterations(last[id].before, id, Slice(TextOf(id), 0, last[id].length),
             last[id].before.position)

\* C28: a parse call terminates: each iteration of the scanning loop leaves
\* the loop or goes on at a greater index, and the loop that matches the
\* container marker makes at most Len("<boltArtifact") steps
C28_LoopAdvances ==
  \A id \in MsgIds :
    (msg[id] # NotStreamed /\ last[id].called) =>
      \A list \in {LastIterations(id)} : \A k \in 1..Len(list) :
        /\ list[k].leaves \/ list[k].to > list[k].from
        /\ list[k].steps <= Len(ARTIFACT_TAG_OPEN)

\* C28 witness: a call of five iterations or more, one of them matching the
\* whole container marker, that ends at the end of its text
C28_Witness ==
  \E id \in MsgIds :
    /\ msg[id] # NotStreamed /\ last[id].called /\ ~last[id].threw
    /\ last[id].after.position = last[id].length
    /\ \E list \in {LastIterations(id)} :
         /\ Len(list) >= 5
         /\ \E k \in 1..Len(list) : list[k].steps = Len(ARTIFACT_TAG_OPEN)

(***************************** the screen store *****************************)
\* The screen ids the callers use
S1 == <<"s", "1">>
S2 == <<"s", "2">>
ScreenIds == {S1, S2}

\* children a screen may collect, triggers a graph entry may collect
MaxChildren == 2
MaxTriggers == 1

\* The record of screens is modelled as the sequence of its values in key
\* order, each value holding its key as id; of a ScreenMetadata the fields the
\* operations read or change after creation are kept
HasScreen(object, id) == \E k \in 1..Len(object) : object[k].id = id
ScreenAt(object, id) == object[CHOOSE k \in 1..Len(object) : object[k].id = id]
ScreenKeys(object) == [k \in 1..Len(object) |-> object[k].id]

\* A change made in place to the screen object stored under the key
InPlace(object, id, screen) ==
  [k \in 1..Len(object) |-> IF object[k].id = id THEN screen ELSE object[k]]

\* #screens.setKey(key, value) with a new object as value: { ...value, [key]: value }
setScreenKey(object, id, screen) ==
  IF HasScreen(object, id) THEN InPlace(object, id, screen) ELSE Append(object, screen)

\* #navigationGraph.setKey(key, value) with a new array as value: the store
\* takes a copy of the record with the key set
setKey(graph, key, value) ==
  [k \in DOMAIN graph \cup {key} |-> IF k = key THEN value ELSE graph[k]]

\* The ScreenAction records the callers pass
ScreenData(screenId, parentScreen) == [screenId |-> screenId, parentScreen |-> parentScreen]
\* The NavigationAction records the callers pass
NavigationData(fromScreen, toScreen) == [fromScreen |-> fromScreen, toScreen |-> toScreen]

\* addScreen: the screens after it
addScreen(object, screenData) ==
  LET screen == [id |-> screenData.screenId, parentScreen |-> screenData.parentScreen,
                 children |-> <<>>, navigationTriggers |-> <<>>]
      parent == ScreenAt(object, screenData.parentScreen)
      pushed == IF ~Falsy(screenData.parentScreen) /\ HasScreen(object, screenData.parentScreen)
                THEN InPlace(object, screenData.parentScreen,
                             [parent EXCEPT !.children = Append(@, screenData.screenId)])
                ELSE object
  IN setScreenKey(pushed, screenData.screenId, screen)

\* addNavigation: the graph after it
addNavigationGraph(graph, navigationData) ==
  LET trigger == [fromScreen |-> navigationData.fromScreen, toScreen |-> navigationData.toScreen]
      fromScreenNav == IF navigationData.fromScreen \in DOMAIN graph
                       THEN graph[navigationData.fromScreen] ELSE <<>>
  IN setKey(graph, navigationData.fromScreen, Append(fromScreenNav, trigger))

\* addNavigation: the screens after it
addNavigationScreens(object, navigationData) ==
  LET trigger == [fromScreen |-> navigationData.fromScreen, toScreen |-> navigationData.toScreen]
      fromScreen == ScreenAt(object, navigationData.fromScreen)
  IN IF HasScreen(object, navigationData.fromScreen)
     THEN InPlace(object, navigationData.fromScreen,
                  [fromScreen EXCEPT !.navigationTriggers = Append(@, trigger)])
     ELSE object

getNavigationPaths(graph, fromScreen) ==
  IF fromScreen \in DOMAIN graph THEN graph[fromScreen] ELSE <<>>

\* removeScreen of a screen that exists: the screens after it
RECURSIVE clearParent(_, _)
clearParent(object, children) ==
  IF children = <<>> THEN object
  ELSE clearParent(IF HasScreen(object, Head(children))
                   THEN InPlace(object, Head(children),
                                [ScreenAt(object, Head(children)) EXCEPT !.parentScreen = Undefined])
                   ELSE object,
                   Tail(children))

removeScreenScreens(object, screenId) ==
  LET screen == ScreenAt(object, screenId)
      parentScreen == ScreenAt(object, screen.parentScreen)
      filtered == IF ~Falsy(screen.parentScreen) /\ HasScreen(object, screen.parentScreen)
                  THEN InPlace(object, screen.parentScreen,
                               [parentScreen EXCEPT !.children =
                                  SelectSeq(@, LAMBDA id : id # screenId)])
                  ELSE object
      cleared == clearParent(filtered, ScreenAt(filtered, screenId).children)
  IN SelectSeq(cleared, LAMBDA s : s.id # screenId)

\* removeScreen of a screen that exists: the graph after it.  The loop stores
\* a new array under every key, each time in a copy of the record, so the
\* store holds a copy when the loop ends; delete navigationGraph[screenId]
\* then removes the key from the record read before the loop, which the store
\* no longer holds (with no key in the graph there is nothing to delete).
removeScreenGraph(graph, screenId) ==
  [k \in DOMAIN graph |-> SelectSeq(graph[k], LAMBDA trigger : trigger.toScreen # screenId)]

\* removeScreen without lines 246-249: the active screen is left as it is
removeScreenActive_keep(object, active, screenId) == active

\* removeScreen of a screen that exists: the active screen after it
removeScreenActive(object, active, screenId) ==
  LET remainingScreens == ScreenKeys(SelectSeq(object, LAMBDA s : s.id # screenId))
  IN IF active = screenId
     THEN IF Len(remainingScreens) > 0 THEN remainingScreens[1] ELSE Null
     ELSE active

AddScreen(screenId, parentScreen) ==
  /\ HasScreen(screens, parentScreen) => Len(ScreenAt(screens, parentScreen).children) < MaxChildren
  /\ screens' = addScreen(screens, ScreenData(screenId, parentScreen))
  /\ activeScreen' = IF Len(screens') = 1 THEN screenId ELSE activeScreen
  /\ storeOp' = [op |-> "addScreen", id |-> screenId, parentScreen |-> parentScreen,
                 existed |-> HasScreen(screens, screenId)]
  /\ UNCHANGED <<navigationGraph, parserVars>>

AddNavigation(fromScreen, toScreen) ==
  /\ Len(getNavigationPaths(navigationGraph, fromScreen)) < MaxTriggers
  /\ HasScreen(screens, fromScreen) =>
       Len(ScreenAt(screens, fromScreen).navigationTriggers) < MaxTriggers
  /\ navigationGraph' = addNavigationGraph(navigationGraph, NavigationData(fromScreen, toScreen))
  /\ screens' = addNavigationScreens(screens, NavigationData(fromScreen, toScreen))
  /\ storeOp' = [op |-> "addNavigation", id |-> fromScreen, toScreen |-> toScreen]
  /\ UNCHANGED <<activeScreen, parserVars>>

RemoveScreen(screenId) ==
  /\ IF HasScreen(screens, screenId)
     THEN /\ screens' = removeScreenScreens(screens, screenId)
          /\ navigationGraph' = removeScreenGraph(navigationGraph, screenId)
          /\ activeScreen' = removeScreenActive(screens, activeScreen, screenId)
     ELSE UNCHANGED <<screens, navigationGraph, activeScreen>>
  /\ storeOp' = [op |-> "removeScreen", id |-> screenId, existed |-> HasScreen(screens, screenId),
                 wasActive |-> activeScreen = screenId]
  /\ UNCHANGED parserVars

SetActiveScreen(screenId) ==
  /\ activeScreen' = IF HasScreen(screens, screenId) THEN screenId ELSE activeScreen
  /\ storeOp' = [op |-> "setActiveScreen", id |-> screenId]
  /\ UNCHANGED <<screens, navigationGraph, parserVars>>

ResetStore ==
  /\ screens' = <<>>
  /\ navigationGraph' = [id \in {} |-> <<>>]
  /\ activeScreen' = Null
  /\ storeOp' = [op |-> "reset"]
  /\ UNCHANGED parserVars

\* no message is streamed while the store is exercised
InitStore ==
  /\ NewStore
  /\ messages = [id \in {} |-> NewMessageState]
  /\ msg = [id \in MsgIds |-> NotStreamed]
  /\ sent = [id \in MsgIds |-> -1]
  /\ growing = [id \in MsgIds |-> TRUE]
  /\ calls = [id \in MsgIds |-> 0]
  /\ out = [id \in MsgIds |-> <<>>]
  /\ log = [id \in MsgIds |-> <<>>]
  /\ last = [id \in MsgIds |-> NoCall]
  /\ failed = [id \in MsgIds |-> FALSE]
  /\ trace = <<>>

NextStore ==
  \/ \E screenId \in ScreenIds : \E parentScreen \in ScreenIds \cup {Undefined} :
       AddScreen(screenId, parentScreen)
  \/ \E fromScreen \in ScreenIds : \E toScreen \in ScreenIds : AddNavigation(fromScreen, toScreen)
  \/ \E screenId \in ScreenIds : RemoveScreen(screenId)
  \/ \E screenId \in ScreenIds : SetActiveScreen(screenId)
  \/ ResetStore

SpecStore == InitStore /\ [][NextStore]_vars

(************************** claims on the screen store **************************)
\* The latest call removed the screen id, which was present
Removed(id) == storeOp.op = "removeScreen" /\ storeOp.id = id /\ storeOp.existed

\* The triggers of every entry of the navigation graph
AllTriggers == UNION {{navigationGraph[from][k] : k \in 1..Len(navigationGraph[from])} :
                      from \in DOMAIN navigationGraph}

\* C21: after removeScreen(id) of a screen that exists, the navigation graph
\* has no entry keyed by id and no trigger whose toScreen is id, so
\* getNavigationPaths(id) returns the empty list
C21_RemovedFromGraph ==
  \A id \in ScreenIds :
    Removed(id) =>
      /\ id \notin DOMAIN navigationGraph
      /\ \A trigger \in AllTriggers : trigger.toScreen # id
      /\ getNavigationPaths(navigationGraph, id) = <<>>

\* The elements of a list
Elems(list) == {list[k] : k \in 1..Len(list)}

\* C22: after removeScreen(id) of a screen that exists, id is not a key of
\* screens, id occurs in no remaining screen's children, and no remaining
\* screen has id as its parentScreen
C22_RemovedFromScreens ==
  \A id \in ScreenIds :
    Removed(id) =>
      /\ ~HasScreen(screens, id)
      /\ \A screen \in Elems(screens) :
           /\ id \notin Elems(screen.children)
           /\ screen.parentScreen # id

\* C22, its first part alone: id is not a key of screens
C22_KeyRemoved == \A id \in ScreenIds : Removed(id) => ~HasScreen(screens, id)

\* C29: after any sequence of addScreen, removeScreen, setActiveScreen and
\* reset, activeScreen is null or the id of a screen that is present, and it
\* is not null while the store holds a screen
C29_ActiveScreenPresent ==
  /\ activeScreen = Null \/ HasScreen(screens, activeScreen)
  /\ Len(screens) > 0 => activeScreen # Null

\* C29 witness: the active screen was removed while another screen remained
C29_Witness ==
  /\ storeOp.op = "removeScreen" /\ storeOp.existed /\ storeOp.wasActive
  /\ Len(screens) > 0

\* The number of times id occurs in a list
Occurrences(list, id) == Cardinality({k \in 1..Len(list) : list[k] = id})

\* C30: after any sequence of addScreen and removeScreen, parent and child
\* links agree: for screens S and P that are present, S.parentScreen is P's
\* id exactly when S's id occurs in P.children, and it occurs at most once
C30_LinksAgree ==
  \A S \in Elems(screens) : \A P \in Elems(screens) :
    /\ S.parentScreen = P.id <=> S.id \in Elems(P.children)
    /\ Occurrences(P.children, S.id) <= 1

====
